---- MODULE Spec2Model ----
(***************************************************************************)
(* Provisioning / teardown orchestration of the Skyflow Databricks         *)
(* integration: CreateCommand.execute and DestroyCommand.execute of        *)
(* cli/commands.py on top of the resource managers of databricks_ops/.     *)
(*                                                                         *)
(* The remote platform is the set of resources that currently exist.  A    *)
(* remote call ends in one of the outcomes the code distinguishes:         *)
(*   "ok"    the call returned and had its effect;                         *)
(*   "stale" a delete returned success but the resource is still visible;  *)
(*   "dberr" the call raised DatabricksError (caught by the managers);     *)
(*   "exc"   the call raised another Exception (caught only by the         *)
(*           try/except Exception blocks).                                 *)
(* Every value a manager method returns is "true", "false" or "raise".     *)
(***************************************************************************)
EXTENDS Naturals, Sequences, FiniteSets, TLC

\* ------------------------------------------------------------------ bounds
MaxRuns == 2
MaxFaults == 2
MaxDashboards == 2
MaxSessionFaults == 1
MaxAttempts == 3
MaxStatements == 3
timeout_minutes == 1

Prefixes == {"demo", "bad"}

\* An identifier the naming rule rejects, and everything the CLI can be given.
InvalidPrefixes == {"no good!"}
Identifiers == Prefixes \cup InvalidPrefixes

\* What the command lines of one CLI session are given.
SessionIdentifiers == {"demo"} \cup InvalidPrefixes

\* ------------------------------------------------------------------ names
DashboardName(p) == p \o "_customer_insights_dashboard"
NotebookPath(p) == "/Shared/" \o p \o "_tokenize_table"
CatalogName(p) == p \o "_catalog"
SchemaName(p) == CatalogName(p) \o ".default"
TableName(p) == CatalogName(p) \o ".default." \o p \o "_customer_data"
FunctionName(p) == CatalogName(p) \o ".default." \o p \o "_skyflow_conditional_detokenize"
MasksName(p) == TableName(p) \o "#masks"
ConnName == "skyflow_conn"
ScopeName == "skyflow-secrets"
SecretKeys == {"skyflow_pat_token", "skyflow_vault_id", "skyflow_table", "skyflow_table_column"}
SecretName(k) == ScopeName \o "/" \o k

\* ------------------------------------------------------------------ outcomes
ProbeOut == {"ok", "dberr", "exc"}
CreateOut == {"ok", "dberr", "exc"}
DeleteOut == {"ok", "stale", "dberr", "exc"}
SqlOut == {"ok", "fail"}

Fault(o) == IF o = "ok" THEN 0 ELSE 1

VARIABLES
    remote,                \* set of names of the resources that exist remotely
    dash,                  \* [prefix -> number of dashboards with that display name]
    cmd,                   \* command run from the CLI: "none", "create", "destroy"
    prefix,                \* identifier of the running command
    pc,                    \* position inside the running command
    runs,                  \* commands started so far
    faults,                \* remote calls that have failed so far
    budget,                \* how many remote calls may fail in this behaviour
    successful_deletions,  \* DestroyCommand.execute local
    failed_deletions,      \* DestroyCommand.execute local
    tracking,              \* the two lists have been assigned (line 300-301)
    dsteps,                \* destroy steps attempted in this destroy run, in order
    dsummary,              \* _print_destroy_summary was called
    dresult,               \* value returned by DestroyCommand.execute: "none", "true", "false"
    dcaught,               \* the except clause of DestroyCommand.execute was entered
    dreported,             \* destroy steps whose delete operation returned False
    dstill,                \* destroy steps whose post-delete probe found the resource
    preclean,              \* result of the destroy run nested in create
    csteps,                \* create steps attempted in this create run, in order
    cfailed,               \* create steps that reported failure in this run
    tokenization_success,  \* CreateCommand.execute local
    cresult,               \* value returned by CreateCommand.execute
    ccaught,               \* the except clause of CreateCommand.execute was entered
    ops,                   \* mutating remote calls issued in this command, in order
    destroy_success,       \* recreate local: result of its destroy phase
    vresult,               \* value returned by VerifyCommand.execute
    vcalls,                \* statements VerifyCommand.execute has issued, in order
    prev,                  \* the command that exited last: what, for whom, how
    fstart,                \* value of faults when the running command started
    startclean,            \* no derived name existed when the running command started
    opc,                   \* position of a destroy run for another identifier
    ofailed,               \* that run has recorded a failed deletion
    oresult,               \* value that run returned
    last,                  \* the resource operation applied last, with what it did
    wait_time,             \* _monitor_job_execution_sdk local
    polls,                 \* status calls the job monitor has made for this run
    observed               \* what the job monitor's last status call showed

platform == <<remote, dash>>
control == <<cmd, prefix, pc, runs, faults, budget>>
dvars == <<successful_deletions, failed_deletions, tracking, dsteps, dsummary, dresult,
           dcaught, dreported, dstill>>
cvars == <<preclean, csteps, cfailed, tokenization_success, cresult, ccaught>>
session == <<destroy_success, vresult, vcalls, prev, fstart, startclean>>
other == <<opc, ofailed, oresult>>
aux == <<last, wait_time, polls, observed>>
vars == <<platform, control, dvars, cvars, ops, session, other, aux>>

\* ------------------------------------------------------------------ ExistenceGuard
\* DatabricksClientWrapper.check_resource_exists(kind, probe): runs the probe;
\* found -> true, not-found failure -> false, other failures are re-raised.
CheckResourceExists(present, out) ==
    CASE out = "ok" -> IF present THEN "true" ELSE "false"
      [] out = "dberr" -> "raise_db"
      [] OTHER -> "raise_exc"

\* A manager method whose body is try: ... except DatabricksError: return False
CaughtDb(r) == IF r = "raise_db" THEN "false" ELSE IF r = "raise_exc" THEN "raise" ELSE r

\* A call site with no try/except around it: any error propagates.
Uncaught(r) == IF r \in {"raise_db", "raise_exc"} THEN "raise" ELSE r

\* Net result of execute_with_retry(op) for a remote call that ended `out`.
RetryResult(out) ==
    CASE out \in {"ok", "stale"} -> "true"
      [] out = "dberr" -> "raise_db"
      [] OTHER -> "raise_exc"

\* ------------------------------------------------------------------ UnityCatalogManager
CatalogContents(p) == {SchemaName(p), TableName(p), FunctionName(p), MasksName(p)}

\* catalog_exists / connection_exists
ResourceExists(rem, name, probe) == Uncaught(CheckResourceExists(name \in rem, probe))

\* Mutant: dropping a resource that does not exist reports failure.
DropResourceMissingFails(rem, name, cascade, call, probe, del) ==
    LET chk == CheckResourceExists(name \in rem, probe) IN
    IF chk # "true"
    THEN [ret |-> "false", rem |-> rem, ops |-> <<>>, nf |-> Fault(probe)]
    ELSE [ret |-> CaughtDb(RetryResult(del)),
          rem |-> IF del = "ok" THEN (rem \ {name}) \ cascade ELSE rem,
          ops |-> <<call>>,
          nf |-> Fault(probe) + Fault(del)]

DropResource(rem, name, cascade, call, probe, del) ==
    LET chk == CheckResourceExists(name \in rem, probe) IN
    IF chk # "true"
    THEN [ret |-> IF chk = "false" THEN "true" ELSE CaughtDb(chk), rem |-> rem, ops |-> <<>>,
          nf |-> Fault(probe)]
    ELSE [ret |-> CaughtDb(RetryResult(del)),
          rem |-> IF del = "ok" THEN (rem \ {name}) \ cascade ELSE rem,
          ops |-> <<call>>,
          nf |-> Fault(probe) + Fault(del)]

\* Mutant: the catalog is dropped without its contents.
drop_catalog_NoCascade(rem, p, probe, del) ==
    DropResource(rem, CatalogName(p), {}, "catalogs.delete", probe, del)

drop_catalog(rem, p, probe, del) ==
    DropResource(rem, CatalogName(p), CatalogContents(p), "catalogs.delete", probe, del)

drop_connection(rem, probe, del) ==
    DropResource(rem, ConnName, {}, "connections.delete", probe, del)

\* ------------------------------------------------------------------ SecretsManager
ScopeContents == {SecretName(k) : k \in SecretKeys}

\* The scope test of create_secret_scope / delete_secret_scope: list_scopes()
\* inside the method's try/except DatabricksError.
ScopeListed(rem, list) ==
    CASE list = "ok" -> IF ScopeName \in rem THEN "true" ELSE "false"
      [] list = "dberr" -> "raise_db"
      [] OTHER -> "raise_exc"

delete_secret_scope(rem, list, del) ==
    LET chk == ScopeListed(rem, list) IN
    IF chk # "true"
    THEN [ret |-> IF chk = "false" THEN "true" ELSE CaughtDb(chk), rem |-> rem, ops |-> <<>>,
          nf |-> Fault(list)]
    ELSE [ret |-> CaughtDb(RetryResult(del)),
          rem |-> IF del = "ok" THEN (rem \ {ScopeName}) \ ScopeContents ELSE rem,
          ops |-> <<"secrets.delete_scope">>,
          nf |-> Fault(list) + Fault(del)]

\* secret_scope_exists: check_resource_exists over list_secrets(scope)
secret_scope_exists(rem, probe) == Uncaught(CheckResourceExists(ScopeName \in rem, probe))

\* ------------------------------------------------------------------ NotebookManager
\* notebook_exists: get_status, DatabricksError -> False
notebook_exists(rem, p, probe) ==
    CASE probe = "ok" -> IF NotebookPath(p) \in rem THEN "true" ELSE "false"
      [] probe = "dberr" -> "false"
      [] OTHER -> "raise"

\* Mutant: the delete removes the notebook of every identifier.
delete_notebook_EveryIdentifier(rem, p, probe, del) ==
    LET ex == notebook_exists(rem, p, probe) IN
    IF ex = "raise" THEN [ret |-> "raise", rem |-> rem, ops |-> <<>>, nf |-> Fault(probe)]
    ELSE IF ex = "false" THEN [ret |-> "true", rem |-> rem, ops |-> <<>>, nf |-> Fault(probe)]
    ELSE [ret |-> CaughtDb(RetryResult(del)),
          rem |-> IF del = "ok" THEN rem \ {NotebookPath(q) : q \in Prefixes} ELSE rem,
          ops |-> <<"workspace.delete">>,
          nf |-> Fault(probe) + Fault(del)]

delete_notebook(rem, p, probe, del) ==
    LET ex == notebook_exists(rem, p, probe) IN
    IF ex = "raise" THEN [ret |-> "raise", rem |-> rem, ops |-> <<>>, nf |-> Fault(probe)]
    ELSE IF ex = "false" THEN [ret |-> "true", rem |-> rem, ops |-> <<>>, nf |-> Fault(probe)]
    ELSE [ret |-> CaughtDb(RetryResult(del)),
          rem |-> IF del = "ok" THEN rem \ {NotebookPath(p)} ELSE rem,
          ops |-> <<"workspace.delete">>,
          nf |-> Fault(probe) + Fault(del)]

\* ------------------------------------------------------------------ DashboardManager
\* list_dashboards + find_dashboard_by_name: a DatabricksError gives the empty
\* list, any other error propagates.
find_dashboard_by_name(d, p, list) ==
    CASE list = "ok" -> IF d[p] > 0 THEN "id" ELSE "none"
      [] list = "dberr" -> "none"
      [] OTHER -> "raise"

\* Mutant: a dashboard that is already gone makes the delete fail.
delete_dashboard_NotFoundFails(d, p, del) ==
    [ret |-> CASE del \in {"ok", "stale"} -> "true"
               [] del \in {"dberr", "notfound"} -> "false"
               [] OTHER -> "raise",
     dash |-> IF del = "ok" /\ d[p] > 0 THEN [d EXCEPT ![p] = d[p] - 1] ELSE d,
     ops |-> <<"lakeview.trash">>,
     nf |-> Fault(del)]

delete_dashboard(d, p, del) ==
    [ret |-> CASE del \in {"ok", "stale", "notfound"} -> "true"
               [] del = "dberr" -> "false"
               [] OTHER -> "raise",
     dash |-> IF del = "ok" /\ d[p] > 0 THEN [d EXCEPT ![p] = d[p] - 1] ELSE d,
     ops |-> <<"lakeview.trash">>,
     nf |-> Fault(del)]

\* ------------------------------------------------------------------ SQLExecutor
\* execute_sql_file never raises: a missing file, a failed statement and an
\* error while reading or executing all return False.
execute_sql_file(out) == IF out = "ok" THEN "true" ELSE "false"

\* What the statements of a template do to the platform once the whole file
\* has succeeded.
SqlEffect(rem, file, p) ==
    CASE file = "sql/destroy/remove_column_masks.sql" -> rem \ {MasksName(p)}
      [] file = "sql/destroy/drop_functions.sql" -> rem \ {FunctionName(p)}
      [] file = "sql/destroy/drop_table.sql" -> rem \ {TableName(p), MasksName(p)}
      [] file = "sql/setup/create_uc_connections.sql" -> rem \cup {ConnName}
      [] file = "sql/setup/setup_uc_connections_api.sql" -> rem \cup {FunctionName(p)}
      [] file = "sql/setup/create_sample_table.sql" -> rem \cup {TableName(p)}
      [] file = "sql/setup/apply_column_masks.sql" -> rem \cup {MasksName(p)}
      [] OTHER -> rem

\* A statement needs its catalog (and table) to exist to succeed.
SqlCan(rem, file, p) ==
    CASE file \in {"sql/setup/setup_uc_connections_api.sql",
                   "sql/setup/create_sample_table.sql"} -> SchemaName(p) \in rem
      [] file = "sql/setup/apply_column_masks.sql" ->
             TableName(p) \in rem /\ FunctionName(p) \in rem
      [] file = "sql/verify/verify_functions.sql" -> FunctionName(p) \in rem
      [] OTHER -> TRUE

RunSqlFile(rem, file, p, out) ==
    LET o == IF SqlCan(rem, file, p) THEN out ELSE "fail" IN
    [ret |-> execute_sql_file(o),
     rem |-> IF o = "ok" THEN SqlEffect(rem, file, p) ELSE rem,
     ops |-> <<file>>,
     nf |-> IF SqlCan(rem, file, p) THEN Fault(out) ELSE 0]

\* ------------------------------------------------------------------ DestroyCommand.execute
\* The outcome of one step: the platform after it, the entries it appended to
\* the two lists, whether an error left the step uncaught, the calls it issued,
\* and what the step saw: "delfail" (its delete operation returned False),
\* "still" (its post-delete probe found the resource) or "none"; nf counts the
\* failed remote calls among the calls the step actually made.
StepOut(rem, d, succ, fail, exc, o, obs, nf) ==
    [rem |-> rem, dash |-> d, succ |-> succ, fail |-> fail, exc |-> exc, ops |-> o,
     obs |-> obs, nf |-> nf]

\* Step 1: Delete dashboard
DestroyDashboard(rem, d, p, list1, del, list2) ==
    LET name == DashboardName(p)
        id == find_dashboard_by_name(d, p, list1)
        dd == delete_dashboard(d, p, del)
        again == find_dashboard_by_name(dd.dash, p, list2)
        n1 == Fault(list1)
        n2 == n1 + dd.nf
        n3 == n2 + Fault(list2)
    IN
    CASE id = "raise" -> StepOut(rem, d, <<>>, <<>>, TRUE, <<>>, "none", n1)
      [] id = "none" ->
             StepOut(rem, d, <<"Dashboard: " \o name \o " (didn't exist)">>, <<>>, FALSE,
                     <<>>, "none", n1)
      [] dd.ret = "raise" -> StepOut(rem, dd.dash, <<>>, <<>>, TRUE, dd.ops, "none", n2)
      [] dd.ret = "false" ->
             StepOut(rem, dd.dash, <<>>, <<"Dashboard: " \o name>>, FALSE, dd.ops, "delfail",
                     n2)
      [] again = "raise" ->
             StepOut(rem, dd.dash, <<"Dashboard: " \o name>>, <<>>, TRUE, dd.ops, "none", n3)
      [] again = "id" ->
             StepOut(rem, dd.dash, <<"Dashboard: " \o name>>,
                     <<"Dashboard: " \o name \o " (still exists)">>, FALSE, dd.ops, "still",
                     n3)
      [] OTHER ->
             StepOut(rem, dd.dash, <<"Dashboard: " \o name>>, <<>>, FALSE, dd.ops, "none",
                     n3)

\* Step 2: Delete notebook; a failed delete appends nothing
DestroyNotebook(rem, d, p, probe, del) ==
    LET r == delete_notebook(rem, p, probe, del) IN
    CASE r.ret = "raise" -> StepOut(r.rem, d, <<>>, <<>>, TRUE, r.ops, "none", r.nf)
      [] r.ret = "true" ->
             StepOut(r.rem, d, <<"Notebook: " \o NotebookPath(p)>>, <<>>, FALSE, r.ops,
                     "none", r.nf)
      [] OTHER -> StepOut(r.rem, d, <<>>, <<>>, FALSE, r.ops, "delfail", r.nf)

\* Mutant: a failed removal of the column masks is recorded as a failed deletion.
DestroyColumnMasksRecordsFailure(rem, d, p, probe, sql) ==
    LET ex == ResourceExists(rem, CatalogName(p), probe)
        r == RunSqlFile(rem, "sql/destroy/remove_column_masks.sql", p, sql)
        n1 == Fault(probe)
        n2 == n1 + r.nf
    IN
    CASE ex = "raise" -> StepOut(rem, d, <<>>, <<>>, TRUE, <<>>, "none", n1)
      [] ex = "false" ->
             StepOut(rem, d, <<"Column masks (catalog didn't exist)">>, <<>>, FALSE, <<>>,
                     "none", n1)
      [] r.ret = "true" ->
             StepOut(r.rem, d, <<"Column masks removed">>, <<>>, FALSE, r.ops, "none", n2)
      [] OTHER ->
             StepOut(r.rem, d, <<>>, <<"Column masks">>, FALSE, r.ops, "delfail", n2)

\* Step 3: Remove column masks; a failed removal is recorded as skipped
DestroyColumnMasks(rem, d, p, probe, sql) ==
    LET ex == ResourceExists(rem, CatalogName(p), probe)
        r == RunSqlFile(rem, "sql/destroy/remove_column_masks.sql", p, sql)
        n1 == Fault(probe)
        n2 == n1 + r.nf
    IN
    CASE ex = "raise" -> StepOut(rem, d, <<>>, <<>>, TRUE, <<>>, "none", n1)
      [] ex = "false" ->
             StepOut(rem, d, <<"Column masks (catalog didn't exist)">>, <<>>, FALSE, <<>>,
                     "none", n1)
      [] r.ret = "true" ->
             StepOut(r.rem, d, <<"Column masks removed">>, <<>>, FALSE, r.ops, "none", n2)
      [] OTHER ->
             StepOut(r.rem, d, <<"Column masks (skipped)">>, <<>>, FALSE, r.ops, "delfail",
                     n2)

\* Mutant: the SQL file is executed whether or not the catalog exists.
DestroyBySqlUnguarded(rem, d, p, probe, sql, file, done, failed, skipped) ==
    LET ex == ResourceExists(rem, CatalogName(p), probe)
        r == RunSqlFile(rem, file, p, sql)
        n1 == Fault(probe)
        n2 == n1 + r.nf
    IN
    CASE ex = "raise" -> StepOut(rem, d, <<>>, <<>>, TRUE, <<>>, "none", n1)
      [] r.ret = "true" -> StepOut(r.rem, d, <<done>>, <<>>, FALSE, r.ops, "none", n2)
      [] OTHER -> StepOut(r.rem, d, <<>>, <<failed>>, FALSE, r.ops, "delfail", n2)

\* Steps 4 and 5: a catalog-guarded SQL file whose failure is recorded
DestroyBySql(rem, d, p, probe, sql, file, done, failed, skipped) ==
    LET ex == ResourceExists(rem, CatalogName(p), probe)
        r == RunSqlFile(rem, file, p, sql)
        n1 == Fault(probe)
        n2 == n1 + r.nf
    IN
    CASE ex = "raise" -> StepOut(rem, d, <<>>, <<>>, TRUE, <<>>, "none", n1)
      [] ex = "false" -> StepOut(rem, d, <<skipped>>, <<>>, FALSE, <<>>, "none", n1)
      [] r.ret = "true" -> StepOut(r.rem, d, <<done>>, <<>>, FALSE, r.ops, "none", n2)
      [] OTHER -> StepOut(r.rem, d, <<>>, <<failed>>, FALSE, r.ops, "delfail", n2)

\* Step 4: Drop functions
DestroyFunctions(rem, d, p, probe, sql) ==
    DestroyBySql(rem, d, p, probe, sql, "sql/destroy/drop_functions.sql",
                 "Unity Catalog functions", "Unity Catalog functions",
                 "Functions (catalog didn't exist)")

\* Step 5: Drop table
DestroyTable(rem, d, p, probe, sql) ==
    DestroyBySql(rem, d, p, probe, sql, "sql/destroy/drop_table.sql",
                 "Sample table", "Sample table", "Sample table (catalog didn't exist)")

\* Mutant: a resource the post-delete probe still finds is recorded as failed only.
DestroyValidatedStillFailedOnly(r, d, label, still, npost, recordFailure) ==
    LET n2 == r.nf + npost IN
    CASE r.ret = "raise" -> StepOut(r.rem, d, <<>>, <<>>, TRUE, r.ops, "none", r.nf)
      [] r.ret = "false" ->
             StepOut(r.rem, d, <<>>, IF recordFailure THEN <<label>> ELSE <<>>, FALSE, r.ops,
                     "delfail", r.nf)
      [] still = "raise" -> StepOut(r.rem, d, <<label>>, <<>>, TRUE, r.ops, "none", n2)
      [] still = "true" ->
             StepOut(r.rem, d, <<>>, <<label \o " (still exists)">>, FALSE, r.ops,
                     "still", n2)
      [] OTHER -> StepOut(r.rem, d, <<label>>, <<>>, FALSE, r.ops, "none", n2)

\* Mutant: a resource the post-delete probe still finds is not recorded.
DestroyValidatedNoStill(r, d, label, still, npost, recordFailure) ==
    LET n2 == r.nf + npost IN
    CASE r.ret = "raise" -> StepOut(r.rem, d, <<>>, <<>>, TRUE, r.ops, "none", r.nf)
      [] r.ret = "false" ->
             StepOut(r.rem, d, <<>>, IF recordFailure THEN <<label>> ELSE <<>>, FALSE, r.ops,
                     "delfail", r.nf)
      [] still = "raise" -> StepOut(r.rem, d, <<label>>, <<>>, TRUE, r.ops, "none", n2)
      [] still = "true" ->
             StepOut(r.rem, d, <<label>>, <<>>, FALSE, r.ops,
                     "still", n2)
      [] OTHER -> StepOut(r.rem, d, <<label>>, <<>>, FALSE, r.ops, "none", n2)

\* Steps 6, 7 and 8: drop, record, validate with a post-delete probe.
\* recordFailure: whether the else branch appends to failed_deletions.
DestroyValidated(r, d, label, still, npost, recordFailure) ==
    LET n2 == r.nf + npost IN
    CASE r.ret = "raise" -> StepOut(r.rem, d, <<>>, <<>>, TRUE, r.ops, "none", r.nf)
      [] r.ret = "false" ->
             StepOut(r.rem, d, <<>>, IF recordFailure THEN <<label>> ELSE <<>>, FALSE, r.ops,
                     "delfail", r.nf)
      [] still = "raise" -> StepOut(r.rem, d, <<label>>, <<>>, TRUE, r.ops, "none", n2)
      [] still = "true" ->
             StepOut(r.rem, d, <<label>>, <<label \o " (still exists)">>, FALSE, r.ops,
                     "still", n2)
      [] OTHER -> StepOut(r.rem, d, <<label>>, <<>>, FALSE, r.ops, "none", n2)

\* Step 6: Delete catalog
DestroyCatalog(rem, d, p, probe, del, post) ==
    LET r == drop_catalog(rem, p, probe, del) IN
    DestroyValidated(r, d, "Catalog: " \o CatalogName(p),
                     ResourceExists(r.rem, CatalogName(p), post), Fault(post), TRUE)

\* Step 7: Delete connection; there is no else branch
DestroyConnection(rem, d, probe, del, post) ==
    LET r == drop_connection(rem, probe, del) IN
    DestroyValidated(r, d, "Connection: " \o ConnName,
                     ResourceExists(r.rem, ConnName, post), Fault(post), FALSE)

\* Step 8: Delete secrets
DestroySecrets(rem, d, list, del, post) ==
    LET r == delete_secret_scope(rem, list, del) IN
    DestroyValidated(r, d, "Secret scope: " \o ScopeName, secret_scope_exists(r.rem, post),
                     Fault(post), TRUE)

\* ------------------------------------------------------------------ create primitives
\* create_catalog / create_schema: existence pre-check, then the create call
\* through execute_with_retry, all inside try/except DatabricksError.  The
\* platform refuses to create a resource whose parent is missing.
CreateResource(rem, name, parent, call, probe, cr) ==
    LET chk == CheckResourceExists(name \in rem, probe)
        out == IF cr = "ok" /\ ~(parent \subseteq rem) THEN "dberr" ELSE cr
    IN
    IF chk # "false"
    THEN [ret |-> CaughtDb(chk), rem |-> rem, ops |-> <<>>, nf |-> Fault(probe)]
    ELSE [ret |-> CaughtDb(RetryResult(out)),
          rem |-> IF out = "ok" THEN rem \cup {name} ELSE rem,
          ops |-> <<call>>,
          nf |-> Fault(probe) + (IF parent \subseteq rem THEN Fault(cr) ELSE 0)]

create_catalog(rem, p, probe, cr) ==
    CreateResource(rem, CatalogName(p), {}, "catalogs.create", probe, cr)

create_schema(rem, p, probe, cr) ==
    CreateResource(rem, SchemaName(p), {CatalogName(p)}, "schemas.create", probe, cr)

create_secret_scope(rem, list, cr) ==
    LET chk == ScopeListed(rem, list) IN
    IF chk # "false"
    THEN [ret |-> CaughtDb(chk), rem |-> rem, ops |-> <<>>, nf |-> Fault(list)]
    ELSE [ret |-> CaughtDb(RetryResult(cr)),
          rem |-> IF cr = "ok" THEN rem \cup {ScopeName} ELSE rem,
          ops |-> <<"secrets.create_scope">>,
          nf |-> Fault(list) + Fault(cr)]

put_secret(rem, key, put) ==
    LET out == IF put = "ok" /\ ScopeName \notin rem THEN "dberr" ELSE put IN
    [ret |-> CaughtDb(RetryResult(out)),
     rem |-> IF out = "ok" THEN rem \cup {SecretName(key)} ELSE rem,
     ops |-> <<"secrets.put_secret">>,
     nf |-> IF ScopeName \in rem THEN Fault(put) ELSE 0]

\* The secrets dict of setup_skyflow_secrets, in insertion order.
SecretOrder == <<"skyflow_pat_token", "skyflow_vault_id", "skyflow_table", "skyflow_table_column">>

\* Mutant: the loop breaks at the first write that returns False.
RECURSIVE PutSecretsBreakOnFailure(_, _, _, _)
PutSecretsBreakOnFailure(rem, puts, i, acc) ==
    IF i > Len(SecretOrder)
    THEN [ret |-> acc.ret, rem |-> rem, ops |-> acc.ops, nf |-> acc.nf]
    ELSE CHOOSE res \in
             {IF r.ret # "true"
              THEN [ret |-> r.ret, rem |-> r.rem, ops |-> a.ops \o r.ops,
                    nf |-> a.nf + r.nf]
              ELSE PutSecretsBreakOnFailure(r.rem, puts, i + 1,
                                            [ret |-> a.ret, ops |-> a.ops \o r.ops,
                                             nf |-> a.nf + r.nf]) :
                  r \in {put_secret(rem, SecretOrder[i], puts[i])}, a \in {acc}} : TRUE

\* The loop over secrets.items(): every key is written, success is the
\* conjunction; an error that put_secret does not catch ends the loop.  (r and
\* a are the values of the call's result and of the accumulator, bound once.)
RECURSIVE PutSecrets(_, _, _, _)
PutSecrets(rem, puts, i, acc) ==
    IF i > Len(SecretOrder)
    THEN [ret |-> acc.ret, rem |-> rem, ops |-> acc.ops, nf |-> acc.nf]
    ELSE CHOOSE res \in
             {IF r.ret = "raise"
              THEN [ret |-> "raise", rem |-> r.rem, ops |-> a.ops \o r.ops,
                    nf |-> a.nf + r.nf]
              ELSE PutSecrets(r.rem, puts, i + 1,
                              [ret |-> IF r.ret = "false" THEN "false" ELSE a.ret,
                               ops |-> a.ops \o r.ops,
                               nf |-> a.nf + r.nf]) :
                  r \in {put_secret(rem, SecretOrder[i], puts[i])}, a \in {acc}} : TRUE

setup_skyflow_secrets(rem, list, cr, puts) ==
    LET sc == create_secret_scope(rem, list, cr) IN
    IF sc.ret # "true" THEN sc
    ELSE LET r == PutSecrets(sc.rem, puts, 1, [ret |-> "true", ops |-> <<>>, nf |-> 0]) IN
         [r EXCEPT !.ops = sc.ops \o r.ops, !.nf = sc.nf + r.nf]

\* create_notebook_from_file: upload with overwrite, no existence pre-check
create_notebook_from_file(rem, p, up) ==
    [ret |-> CaughtDb(RetryResult(up)),
     rem |-> IF up = "ok" THEN rem \cup {NotebookPath(p)} ELSE rem,
     ops |-> <<"workspace.upload">>,
     nf |-> Fault(up)]

\* run_notebook_job: submit, then monitor; every error is caught and gives False.
\* The run can only succeed on an uploaded notebook and an existing table.
JobOut == {"SUCCESS", "FAILED", "TIMEOUT", "submit_error"}

run_notebook_job(rem, p, job) ==
    [ret |-> IF job = "SUCCESS" /\ NotebookPath(p) \in rem /\ TableName(p) \in rem
             THEN "true" ELSE "false",
     rem |-> rem,
     ops |-> <<"jobs.submit">>,
     nf |-> IF job = "SUCCESS" THEN 0 ELSE 1]

\* create_dashboard_from_file: delete a same-named dashboard (errors ignored),
\* create; every error is caught and gives None.
create_dashboard_from_file(d, p, list, del, cr) ==
    LET id == find_dashboard_by_name(d, p, list)
        dd == IF id = "id" THEN delete_dashboard(d, p, del)
              ELSE [ret |-> "true", dash |-> d, ops |-> <<>>, nf |-> 0]
        full == dd.dash[p] >= MaxDashboards
        out == IF cr = "ok" /\ full THEN "dberr" ELSE cr
    IN
    [ret |-> IF out = "ok" THEN "url" ELSE "none",
     dash |-> IF out = "ok" THEN [dd.dash EXCEPT ![p] = dd.dash[p] + 1] ELSE dd.dash,
     ops |-> dd.ops \o <<"lakeview.create">>,
     nf |-> Fault(list) + dd.nf + (IF full THEN 0 ELSE Fault(cr))]

\* setup_customer_insights_dashboard: the first lookup is outside any try.
setup_customer_insights_dashboard(d, p, list1, list2, del, cr) ==
    LET id == find_dashboard_by_name(d, p, list1)
        c == create_dashboard_from_file(d, p, list2, del, cr)
    IN
    CASE id = "raise" -> [ret |-> "raise", dash |-> d, ops |-> <<>>, nf |-> Fault(list1)]
      [] id = "id" -> [ret |-> "url", dash |-> d, ops |-> <<>>, nf |-> Fault(list1)]
      [] OTHER -> [c EXCEPT !.nf = Fault(list1) + c.nf]

\* ------------------------------------------------------------------ CreateCommand steps
CreateOutcome(ret, rem, d, o, nf) ==
    [ret |-> ret, rem |-> rem, dash |-> d, ops |-> o, nf |-> nf]

And3(a, b) == IF a = "true" /\ b = "true" THEN "true" ELSE "false"

\* Mutant: step 1 creates the schema only.
SetupUnityCatalogNoCatalog(rem, d, p, probe1, cr1, probe2, cr2) ==
    LET b == create_schema(rem, p, probe2, cr2) IN
    CASE b.ret = "raise" -> CreateOutcome("raise", b.rem, d, b.ops, b.nf)
      [] OTHER -> CreateOutcome(b.ret, b.rem, d, b.ops, b.nf)

\* Mutant: success = create_catalog(...) and create_schema(...): the schema
\* is left alone once the catalog has failed.
SetupUnityCatalogShortCircuit(rem, d, p, probe1, cr1, probe2, cr2) ==
    LET a == create_catalog(rem, p, probe1, cr1)
        b == create_schema(a.rem, p, probe2, cr2)
    IN
    CASE a.ret # "true" -> CreateOutcome(a.ret, a.rem, d, a.ops, a.nf)
      [] b.ret = "raise" -> CreateOutcome("raise", b.rem, d, a.ops \o b.ops, a.nf + b.nf)
      [] OTHER ->
             CreateOutcome(And3(a.ret, b.ret), b.rem, d, a.ops \o b.ops, a.nf + b.nf)

\* Step 1: _setup_unity_catalog: success = create_catalog; success &= create_schema
SetupUnityCatalog(rem, d, p, probe1, cr1, probe2, cr2) ==
    LET a == create_catalog(rem, p, probe1, cr1)
        b == create_schema(a.rem, p, probe2, cr2)
    IN
    CASE a.ret = "raise" -> CreateOutcome("raise", a.rem, d, a.ops, a.nf)
      [] b.ret = "raise" -> CreateOutcome("raise", b.rem, d, a.ops \o b.ops, a.nf + b.nf)
      [] OTHER ->
             CreateOutcome(And3(a.ret, b.ret), b.rem, d, a.ops \o b.ops, a.nf + b.nf)

\* Step 2: _setup_secrets
SetupSecrets(rem, d, list, cr, puts) ==
    LET r == setup_skyflow_secrets(rem, list, cr, puts) IN
    CreateOutcome(r.ret, r.rem, d, r.ops, r.nf)

\* Mutant: the second file is executed whatever the first returned.
SetupConnectionsUngated(rem, d, p, sql1, sql2) ==
    LET a == RunSqlFile(rem, "sql/setup/create_uc_connections.sql", p, sql1)
        b == RunSqlFile(a.rem, "sql/setup/setup_uc_connections_api.sql", p, sql2)
    IN
    CreateOutcome(And3(a.ret, b.ret), b.rem, d, a.ops \o b.ops, a.nf + b.nf)

\* Step 3: _setup_connections: the second file only after the first succeeded
SetupConnections(rem, d, p, sql1, sql2) ==
    LET a == RunSqlFile(rem, "sql/setup/create_uc_connections.sql", p, sql1)
        b == RunSqlFile(a.rem, "sql/setup/setup_uc_connections_api.sql", p, sql2)
    IN
    IF a.ret = "true"
    THEN CreateOutcome(And3(a.ret, b.ret), b.rem, d, a.ops \o b.ops, a.nf + b.nf)
    ELSE CreateOutcome("false", a.rem, d, a.ops, a.nf)

\* verify_table_exists / get_table_row_count: execute_statement returns None
\* on DatabricksError and lets any other error through.
StatementProbe(present, out) ==
    CASE out = "ok" -> IF present THEN "true" ELSE "false"
      [] out = "dberr" -> "false"
      [] OTHER -> "raise"

\* Step 4: _create_sample_data: the table check and the row count only report
CreateSampleData(rem, d, p, sql, describe, count) ==
    LET a == RunSqlFile(rem, "sql/setup/create_sample_table.sql", p, sql)
        ex == StatementProbe(TableName(p) \in a.rem, describe)
        rows == StatementProbe(TableName(p) \in a.rem, count)
        n2 == a.nf + Fault(describe)
        n3 == n2 + Fault(count)
    IN
    CASE a.ret # "true" -> CreateOutcome("false", a.rem, d, a.ops, a.nf)
      [] ex = "raise" -> CreateOutcome("raise", a.rem, d, a.ops, n2)
      [] ex = "true" /\ rows = "raise" -> CreateOutcome("raise", a.rem, d, a.ops, n3)
      [] ex = "true" -> CreateOutcome("true", a.rem, d, a.ops, n3)
      [] OTHER -> CreateOutcome("true", a.rem, d, a.ops, n2)

\* Step 5: _create_tokenization_notebook: every error gives False
CreateTokenizationNotebook(rem, d, p, up) ==
    LET r == create_notebook_from_file(rem, p, up) IN
    CreateOutcome(IF r.ret = "true" THEN "true" ELSE "false", r.rem, d, r.ops, r.nf)

\* Step 6: _verify_functions
VerifyFunctions(rem, d, p, sql) ==
    LET r == RunSqlFile(rem, "sql/verify/verify_functions.sql", p, sql) IN
    CreateOutcome(r.ret, r.rem, d, r.ops, r.nf)

\* Step 7: _execute_tokenization
ExecuteTokenization(rem, d, p, job) ==
    LET r == run_notebook_job(rem, p, job) IN
    CreateOutcome(r.ret, r.rem, d, r.ops, r.nf)

\* Mutant: the masks are applied whatever the tokenization job returned.
SetupFunctionsUngated(rem, d, p, tok, sql) ==
    LET r == RunSqlFile(rem, "sql/setup/apply_column_masks.sql", p, sql) IN
    CreateOutcome(r.ret, r.rem, d, r.ops, r.nf)

\* Step 8: _setup_functions, run only if tokenization_success
SetupFunctions(rem, d, p, tok, sql) ==
    LET r == RunSqlFile(rem, "sql/setup/apply_column_masks.sql", p, sql) IN
    IF tok THEN CreateOutcome(r.ret, r.rem, d, r.ops, r.nf)
    ELSE CreateOutcome("skipped", rem, d, <<>>, 0)

\* Step 9: _create_dashboard
CreateDashboard(rem, d, p, list1, list2, del, cr) ==
    LET r == setup_customer_insights_dashboard(d, p, list1, list2, del, cr) IN
    CreateOutcome(r.ret, rem, r.dash, r.ops, r.nf)

\* ------------------------------------------------------------------ state machine
\* last before any resource operation has been applied on its own
NoOperation == [op |-> "none"]

\* prev before any command has exited
NoCommand ==
    [cmd |-> "none", prefix |-> "none", result |-> "none", clean |-> FALSE,
     startclean |-> FALSE]

\* No command has run yet.
InitControl ==
    /\ cmd = "none"
    /\ prefix = "none"
    /\ pc = "idle"
    /\ runs = 0
    /\ faults = 0
    /\ successful_deletions = <<>>
    /\ failed_deletions = <<>>
    /\ tracking = FALSE
    /\ dsteps = <<>>
    /\ dsummary = FALSE
    /\ dresult = "none"
    /\ dcaught = FALSE
    /\ dreported = {}
    /\ dstill = {}
    /\ preclean = "none"
    /\ csteps = <<>>
    /\ cfailed = {}
    /\ tokenization_success = FALSE
    /\ cresult = "none"
    /\ ccaught = FALSE
    /\ ops = <<>>
    /\ destroy_success = "none"
    /\ vresult = "none"
    /\ vcalls = <<>>
    /\ prev = NoCommand
    /\ fstart = 0
    /\ startclean = FALSE
    /\ opc = "idle"
    /\ ofailed = FALSE
    /\ oresult = "none"
    /\ last = NoOperation
    /\ wait_time = 0
    /\ polls = 0
    /\ observed = "none"

InitState ==
    /\ remote = {}
    /\ dash = [p \in Identifiers |-> 0]
    /\ InitControl

Init == InitState /\ budget = MaxFaults

Budget(n) == faults + n <= budget

\* Mutant: create goes straight to its own steps, without the nested destroy.
BeginNoPreclean(c, p) ==
    /\ pc = "idle"
    /\ runs < MaxRuns
    /\ cmd' = c
    /\ prefix' = p
    /\ pc' = IF c = "verify" THEN "v0" ELSE IF c = "create" THEN "c0" ELSE "d0"
    /\ runs' = runs + 1
    /\ preclean' = IF c = "create" THEN "running" ELSE "none"
    /\ UNCHANGED <<platform, faults, budget, other, aux, dvars, csteps, cfailed, tokenization_success,
                   cresult, ccaught, ops>>

\* setup.py create/destroy/recreate/verify: build the command and call
\* execute.  create starts with its nested destroy run, recreate with its
\* destroy phase.
Begin(c, p) ==
    /\ pc = "idle"
    /\ runs < MaxRuns
    /\ cmd' = c
    /\ prefix' = p
    /\ pc' = IF c = "verify" THEN "v0" ELSE "d0"
    /\ runs' = runs + 1
    /\ preclean' = IF c = "create" THEN "running" ELSE "none"
    /\ UNCHANGED <<platform, faults, budget, other, aux, dvars, csteps, cfailed, tokenization_success,
                   cresult, ccaught, ops>>

Start(c, p) == Begin(c, p) /\ UNCHANGED session

StartCreate == \E p \in Prefixes : Start("create", p)

StartDestroy == \E p \in Prefixes : Start("destroy", p)

\* DestroyCommand.execute, lines 289-301: validate_environment, managers, lists
DestroyValidate ==
    /\ pc = "d0"
    /\ \E env \in {"ok", "invalid"} :
        /\ Budget(Fault(env))
        /\ faults' = faults + Fault(env)
        /\ IF env = "ok"
           THEN /\ pc' = "d1"
                /\ tracking' = TRUE
                /\ UNCHANGED <<dresult, dcaught>>
           ELSE /\ pc' = "d_done"
                /\ dresult' = "false"
                /\ dcaught' = TRUE
                /\ UNCHANGED tracking
    /\ UNCHANGED <<platform, cmd, prefix, runs, budget, other, aux, successful_deletions, failed_deletions,
                   dsteps, dsummary, dreported, dstill, cvars, ops, session>>

\* Mutant: the run stops at the first step that records a failure.
DestroyControlAbortOnFailure(r, k, failed) ==
    /\ dcaught' = r.exc
    /\ IF r.exc \/ r.fail # <<>>
       THEN pc' = "d_done" /\ dresult' = "false" /\ UNCHANGED dsummary
       ELSE IF k < 8
       THEN pc' = "d" \o ToString(k + 1) /\ UNCHANGED <<dresult, dsummary>>
       ELSE /\ pc' = "d_done"
            /\ dsummary' = TRUE
            /\ dresult' = IF Len(failed) = 0 THEN "true" ELSE "false"

\* Mutant: the run returns True whenever it reaches the summary.
DestroyControlAlwaysTrue(r, k, failed) ==
    /\ dcaught' = r.exc
    /\ IF r.exc
       THEN pc' = "d_done" /\ dresult' = "false" /\ UNCHANGED dsummary
       ELSE IF k < 8
       THEN pc' = "d" \o ToString(k + 1) /\ UNCHANGED <<dresult, dsummary>>
       ELSE /\ pc' = "d_done"
            /\ dsummary' = TRUE
            /\ dresult' = "true"

\* Mutant: the catalog is dropped before the sample table.
DestroyControlCatalogBeforeTable(r, k, failed) ==
    /\ dcaught' = r.exc
    /\ IF r.exc
       THEN pc' = "d_done" /\ dresult' = "false" /\ UNCHANGED dsummary
       ELSE IF k < 8
       THEN /\ pc' = CASE k = 4 -> "d6" [] k = 6 -> "d5" [] k = 5 -> "d7"
                       [] OTHER -> "d" \o ToString(k + 1)
            /\ UNCHANGED <<dresult, dsummary>>
       ELSE /\ pc' = "d_done"
            /\ dsummary' = TRUE
            /\ dresult' = IF Len(failed) = 0 THEN "true" ELSE "false"

\* Mutant: an error a step lets through is swallowed and the run goes on.
DestroyControlContinueAfterError(r, k, failed) ==
    /\ dcaught' = (dcaught \/ r.exc)
    /\ IF k < 8
       THEN pc' = "d" \o ToString(k + 1) /\ UNCHANGED <<dresult, dsummary>>
       ELSE /\ pc' = "d_done"
            /\ dsummary' = TRUE
            /\ dresult' = IF Len(failed) = 0 THEN "true" ELSE "false"

\* Where a destroy step leaves the run: the next step, or the except clause
\* of line 402 (return False), or after step 8 the summary and the return of
\* line 400.
DestroyControl(r, k, failed) ==
    /\ dcaught' = r.exc
    /\ IF r.exc
       THEN pc' = "d_done" /\ dresult' = "false" /\ UNCHANGED dsummary
       ELSE IF k < 8
       THEN pc' = "d" \o ToString(k + 1) /\ UNCHANGED <<dresult, dsummary>>
       ELSE /\ pc' = "d_done"
            /\ dsummary' = TRUE
            /\ dresult' = IF Len(failed) = 0 THEN "true" ELSE "false"

\* One destroy step: its effects on the platform and on the two lists.  A call
\* the step never makes has no outcome to fail (n = r.nf).
DestroyApply(r, k, n) ==
    LET failed == failed_deletions \o r.fail IN
    /\ n = r.nf
    /\ faults' = faults + n
    /\ remote' = r.rem
    /\ dash' = r.dash
    /\ successful_deletions' = successful_deletions \o r.succ
    /\ failed_deletions' = failed
    /\ dsteps' = Append(dsteps, k)
    /\ ops' = ops \o r.ops
    /\ dreported' = IF r.obs = "delfail" THEN dreported \cup {k} ELSE dreported
    /\ dstill' = IF r.obs = "still" THEN dstill \cup {k} ELSE dstill
    /\ DestroyControl(r, k, failed)
    /\ UNCHANGED <<cmd, prefix, runs, budget, other, aux, tracking, cvars, session>>

DestroyStep1 ==
    /\ pc = "d1"
    /\ \E list1 \in ProbeOut, del \in DeleteOut, list2 \in ProbeOut :
        LET n == Fault(list1) + Fault(del) + Fault(list2) IN
        /\ Budget(n)
        /\ DestroyApply(DestroyDashboard(remote, dash, prefix, list1, del, list2), 1, n)

DestroyStep2 ==
    /\ pc = "d2"
    /\ \E probe \in ProbeOut, del \in DeleteOut :
        LET n == Fault(probe) + Fault(del) IN
        /\ Budget(n)
        /\ DestroyApply(DestroyNotebook(remote, dash, prefix, probe, del), 2, n)

DestroyStep3 ==
    /\ pc = "d3"
    /\ \E probe \in ProbeOut, sql \in SqlOut :
        LET n == Fault(probe) + Fault(sql) IN
        /\ Budget(n)
        /\ DestroyApply(DestroyColumnMasks(remote, dash, prefix, probe, sql), 3, n)

DestroyStep4 ==
    /\ pc = "d4"
    /\ \E probe \in ProbeOut, sql \in SqlOut :
        LET n == Fault(probe) + Fault(sql) IN
        /\ Budget(n)
        /\ DestroyApply(DestroyFunctions(remote, dash, prefix, probe, sql), 4, n)

DestroyStep5 ==
    /\ pc = "d5"
    /\ \E probe \in ProbeOut, sql \in SqlOut :
        LET n == Fault(probe) + Fault(sql) IN
        /\ Budget(n)
        /\ DestroyApply(DestroyTable(remote, dash, prefix, probe, sql), 5, n)

DestroyStep6 ==
    /\ pc = "d6"
    /\ \E probe \in ProbeOut, del \in DeleteOut, post \in ProbeOut :
        LET n == Fault(probe) + Fault(del) + Fault(post) IN
        /\ Budget(n)
        /\ DestroyApply(DestroyCatalog(remote, dash, prefix, probe, del, post), 6, n)

DestroyStep7 ==
    /\ pc = "d7"
    /\ \E probe \in ProbeOut, del \in DeleteOut, post \in ProbeOut :
        LET n == Fault(probe) + Fault(del) + Fault(post) IN
        /\ Budget(n)
        /\ DestroyApply(DestroyConnection(remote, dash, probe, del, post), 7, n)

DestroyStep8 ==
    /\ pc = "d8"
    /\ \E list \in ProbeOut, del \in DeleteOut, post \in ProbeOut :
        LET n == Fault(list) + Fault(del) + Fault(post) IN
        /\ Budget(n)
        /\ DestroyApply(DestroySecrets(remote, dash, list, del, post), 8, n)

\* Mutant: a failed pre-clean makes the create run return False.
DestroyReturnAbortOnFailure ==
    /\ pc = "d_done"
    /\ preclean = "running"
    /\ preclean' = dresult
    /\ IF dresult = "true"
       THEN pc' = "c0" /\ UNCHANGED cresult
       ELSE pc' = "c_done" /\ cresult' = "false"
    /\ UNCHANGED <<platform, cmd, prefix, runs, budget, other, aux, faults, dvars, csteps, cfailed,
                   tokenization_success, ccaught, ops, session>>

\* CreateCommand.execute line 55: the nested destroy has returned, its result
\* is dropped
DestroyReturn ==
    /\ pc = "d_done"
    /\ preclean = "running"
    /\ pc' = "c0"
    /\ preclean' = dresult
    /\ UNCHANGED <<platform, cmd, prefix, runs, budget, other, aux, faults, dvars, csteps, cfailed,
                   tokenization_success, cresult, ccaught, ops, session>>

\* Mutant: missing template files only warn and the run reports success.
CreateValidateFilesWarnOnly ==
    /\ pc = "c0"
    /\ \E env \in {"ok", "invalid"}, files \in {"ok", "missing"} :
        LET n == Fault(env) + Fault(files) IN
        /\ Budget(n)
        /\ faults' = faults + n
        /\ IF env = "ok" /\ files = "ok"
           THEN pc' = "c1" /\ UNCHANGED <<cresult, ccaught>>
           ELSE /\ pc' = "c_done"
                /\ cresult' = IF env = "ok" THEN "true" ELSE "false"
                /\ ccaught' = (env # "ok")
    /\ UNCHANGED <<platform, cmd, prefix, runs, budget, other, aux, dvars, preclean, csteps,
                   cfailed, tokenization_success, ops, session>>

\* CreateCommand.execute lines 57-83: validate_environment, required files
CreateValidate ==
    /\ pc = "c0"
    /\ \E env \in {"ok", "invalid"}, files \in {"ok", "missing"} :
        LET n == Fault(env) + Fault(files) IN
        /\ Budget(n)
        /\ faults' = faults + n
        /\ IF env = "ok" /\ files = "ok"
           THEN pc' = "c1" /\ UNCHANGED <<cresult, ccaught>>
           ELSE pc' = "c_done" /\ cresult' = "false" /\ ccaught' = (env # "ok")
    /\ UNCHANGED <<platform, cmd, prefix, runs, budget, other, aux, dvars, preclean, csteps, cfailed,
                   tokenization_success, ops, session>>

\* Mutant: a failed fatal step only warns, like steps 6-8.
CreateControlNoAbort(r, k, fatal) ==
    /\ ccaught' = (r.ret = "raise")
    /\ IF r.ret = "raise"
       THEN pc' = "c_done" /\ cresult' = "false"
       ELSE IF k < 9
       THEN pc' = "c" \o ToString(k + 1) /\ UNCHANGED cresult
       ELSE pc' = "c_done" /\ cresult' = "true"

\* Where a create step leaves the run.  fatal: a false result returns False
\* (steps 1-5); an uncaught error always reaches the except clause of line
\* 138; after step 9 the run returns True.
CreateControl(r, k, fatal) ==
    /\ ccaught' = (r.ret = "raise")
    /\ IF r.ret = "raise" \/ (fatal /\ r.ret = "false")
       THEN pc' = "c_done" /\ cresult' = "false"
       ELSE IF k < 9
       THEN pc' = "c" \o ToString(k + 1) /\ UNCHANGED cresult
       ELSE pc' = "c_done" /\ cresult' = "true"

\* One create step: its effects on the platform and the run's bookkeeping.
CreateApply(r, k, n, fatal) ==
    /\ n = r.nf
    /\ faults' = faults + n
    /\ remote' = r.rem
    /\ dash' = r.dash
    /\ csteps' = Append(csteps, k)
    /\ cfailed' = IF r.ret \in {"false", "raise", "none"} THEN cfailed \cup {k} ELSE cfailed
    /\ tokenization_success' = IF k = 7 THEN r.ret = "true" ELSE tokenization_success
    /\ ops' = ops \o r.ops
    /\ CreateControl(r, k, fatal)
    /\ UNCHANGED <<cmd, prefix, runs, budget, other, aux, dvars, preclean, session>>

CreateStep1 ==
    /\ pc = "c1"
    /\ \E probe1 \in ProbeOut, cr1 \in CreateOut, probe2 \in ProbeOut, cr2 \in CreateOut :
        LET n == Fault(probe1) + Fault(cr1) + Fault(probe2) + Fault(cr2) IN
        /\ Budget(n)
        /\ CreateApply(SetupUnityCatalog(remote, dash, prefix, probe1, cr1, probe2, cr2),
                       1, n, TRUE)

CreateStep2 ==
    /\ pc = "c2"
    /\ \E list \in ProbeOut, cr \in CreateOut, puts \in [1..4 -> CreateOut] :
        LET n == Fault(list) + Fault(cr) + Fault(puts[1]) + Fault(puts[2])
                 + Fault(puts[3]) + Fault(puts[4]) IN
        /\ Budget(n)
        /\ CreateApply(SetupSecrets(remote, dash, list, cr, puts), 2, n, TRUE)

CreateStep3 ==
    /\ pc = "c3"
    /\ \E sql1 \in SqlOut, sql2 \in SqlOut :
        LET n == Fault(sql1) + Fault(sql2) IN
        /\ Budget(n)
        /\ CreateApply(SetupConnections(remote, dash, prefix, sql1, sql2), 3, n, TRUE)

CreateStep4 ==
    /\ pc = "c4"
    /\ \E sql \in SqlOut, describe \in ProbeOut, count \in ProbeOut :
        LET n == Fault(sql) + Fault(describe) + Fault(count) IN
        /\ Budget(n)
        /\ CreateApply(CreateSampleData(remote, dash, prefix, sql, describe, count),
                       4, n, TRUE)

CreateStep5 ==
    /\ pc = "c5"
    /\ \E up \in CreateOut :
        /\ Budget(Fault(up))
        /\ CreateApply(CreateTokenizationNotebook(remote, dash, prefix, up),
                       5, Fault(up), TRUE)

CreateStep6 ==
    /\ pc = "c6"
    /\ \E sql \in SqlOut :
        /\ Budget(Fault(sql))
        /\ CreateApply(VerifyFunctions(remote, dash, prefix, sql), 6, Fault(sql), FALSE)

CreateStep7 ==
    /\ pc = "c7"
    /\ \E job \in JobOut :
        LET n == IF job = "SUCCESS" THEN 0 ELSE 1 IN
        /\ Budget(n)
        /\ CreateApply(ExecuteTokenization(remote, dash, prefix, job), 7, n, FALSE)

CreateStep8 ==
    /\ pc = "c8"
    /\ \E sql \in SqlOut :
        /\ Budget(Fault(sql))
        /\ CreateApply(SetupFunctions(remote, dash, prefix, tokenization_success, sql),
                       8, Fault(sql), FALSE)

CreateStep9 ==
    /\ pc = "c9"
    /\ \E list1 \in ProbeOut, list2 \in ProbeOut, del \in DeleteOut, cr \in CreateOut :
        LET n == Fault(list1) + Fault(list2) + Fault(del) + Fault(cr) IN
        /\ Budget(n)
        /\ CreateApply(CreateDashboard(remote, dash, prefix, list1, list2, del, cr),
                       9, n, FALSE)

\* setup.py: sys.exit with the command's result; the next command starts afresh
Finish ==
    /\ \/ pc = "c_done"
       \/ pc = "d_done" /\ cmd = "destroy"
       \/ pc = "v_done"
    /\ cmd' = "none"
    /\ prefix' = "none"
    /\ pc' = "idle"
    /\ successful_deletions' = <<>>
    /\ failed_deletions' = <<>>
    /\ tracking' = FALSE
    /\ dsteps' = <<>>
    /\ dsummary' = FALSE
    /\ dresult' = "none"
    /\ dcaught' = FALSE
    /\ dreported' = {}
    /\ dstill' = {}
    /\ preclean' = "none"
    /\ csteps' = <<>>
    /\ cfailed' = {}
    /\ tokenization_success' = FALSE
    /\ cresult' = "none"
    /\ ccaught' = FALSE
    /\ ops' = <<>>
    /\ wait_time' = 0
    /\ polls' = 0
    /\ observed' = "none"
    /\ UNCHANGED <<platform, runs, budget, other, last, faults>>

Exit == Finish /\ UNCHANGED session

Next ==
    \/ StartCreate
    \/ StartDestroy
    \/ DestroyValidate
    \/ DestroyStep1
    \/ DestroyStep2
    \/ DestroyStep3
    \/ DestroyStep4
    \/ DestroyStep5
    \/ DestroyStep6
    \/ DestroyStep7
    \/ DestroyStep8
    \/ DestroyReturn
    \/ CreateValidate
    \/ CreateStep1
    \/ CreateStep2
    \/ CreateStep3
    \/ CreateStep4
    \/ CreateStep5
    \/ CreateStep6
    \/ CreateStep7
    \/ CreateStep8
    \/ CreateStep9
    \/ Exit

Spec == Init /\ [][Next]_vars

\* ------------------------------------------------------------------ the CLI session
\* utils.validation.validate_prefix: the naming rule for identifiers.
validate_prefix(p) == p \in Prefixes

\* Mutant: the constructor accepts every identifier.
ConstructCommandUnchecked(p) == "ok"

\* BaseCommand.__init__: ValueError for an identifier the rule rejects.
ConstructCommand(p) == IF validate_prefix(p) THEN "ok" ELSE "ValueError"

\* Every resource a run for identifier p names: its own objects and the two
\* shared ones.
OwnResources(p) ==
    {CatalogName(p), NotebookPath(p), ConnName, ScopeName} \cup CatalogContents(p)
        \cup ScopeContents

Clean(rem, d, p) == OwnResources(p) \cap rem = {} /\ d[p] = 0

\* A statement issued through execute_statement by a caller that has no
\* try/except of its own: only a non-DatabricksError error gets through.
StatementRaises(out) == out \notin {"ok", "dberr"}

\* Mutant: verify looks at the function only.
VerifyExecuteFunctionOnly(rem, p, env, describe, count, sample, fn) ==
    LET fun == StatementProbe(FunctionName(p) \in rem, fn) IN
    IF env # "ok" THEN [ret |-> "false", calls |-> <<>>, nf |-> Fault(env)]
    ELSE [ret |-> IF fun = "true" THEN "true" ELSE "false",
          calls |-> <<"DESCRIBE FUNCTION">>,
          nf |-> Fault(env) + Fault(fn) + Fault(describe) + Fault(count) + Fault(sample)]

\* VerifyCommand.execute: validate_environment, DESCRIBE TABLE, then for an
\* existing table the row count and the sample, then DESCRIBE FUNCTION; any
\* error is caught and gives False.
VerifyExecute(rem, p, env, describe, count, sample, fn) ==
    LET tbl == StatementProbe(TableName(p) \in rem, describe)
        fun == StatementProbe(FunctionName(p) \in rem, fn)
        n1 == Fault(env)
        n2 == n1 + Fault(describe)
        n3 == n2 + Fault(count)
        n4 == n3 + Fault(sample)
        n5 == n4 + Fault(fn)
    IN
    CASE env # "ok" -> [ret |-> "false", calls |-> <<>>, nf |-> n1]
      [] tbl # "true" -> [ret |-> "false", calls |-> <<"DESCRIBE TABLE">>, nf |-> n2]
      [] StatementRaises(count) ->
             [ret |-> "false", calls |-> <<"DESCRIBE TABLE", "SELECT COUNT">>, nf |-> n3]
      [] StatementRaises(sample) ->
             [ret |-> "false", calls |-> <<"DESCRIBE TABLE", "SELECT COUNT", "SELECT">>,
              nf |-> n4]
      [] OTHER ->
             [ret |-> IF fun = "true" THEN "true" ELSE "false",
              calls |-> <<"DESCRIBE TABLE", "SELECT COUNT", "SELECT", "DESCRIBE FUNCTION">>,
              nf |-> n5]

\* Mutant: recreate succeeds only if both of its phases did.
ExitStatusBothPhases(c) ==
    CASE c = "destroy" -> dresult
      [] c = "verify" -> vresult
      [] c = "recreate" -> And3(destroy_success, cresult)
      [] OTHER -> cresult

\* setup.py: the exit status of a command is the result of its execute; for
\* recreate that is create_success (line 97).
ExitStatus(c) ==
    CASE c = "destroy" -> dresult
      [] c = "verify" -> vresult
      [] OTHER -> cresult

\* A command line with a valid identifier: the command object is built, the
\* session notes the state the command starts from.
CliStart(c, p) ==
    /\ ConstructCommand(p) = "ok"
    /\ Begin(c, p)
    /\ fstart' = faults
    /\ startclean' = Clean(remote, dash, p)
    /\ UNCHANGED <<destroy_success, vresult, vcalls, prev>>

CliCreate == \E p \in SessionIdentifiers : CliStart("create", p)

CliDestroy == \E p \in SessionIdentifiers : CliStart("destroy", p)

CliRecreate == \E p \in SessionIdentifiers : CliStart("recreate", p)

CliVerify == \E p \in SessionIdentifiers : CliStart("verify", p)

\* A command line whose identifier is rejected: the constructor raises, the
\* except clause of setup.py prints the error and exits with status 1.
CliRejected ==
    /\ pc = "idle"
    /\ runs < MaxRuns
    /\ \E c \in {"create", "destroy", "recreate", "verify"}, p \in SessionIdentifiers :
        /\ ConstructCommand(p) = "ValueError"
        /\ prev' = [cmd |-> c, prefix |-> p, result |-> "false", clean |-> TRUE,
                    startclean |-> Clean(remote, dash, p)]
    /\ runs' = runs + 1
    /\ UNCHANGED <<platform, cmd, prefix, pc, faults, budget, other, aux, dvars, cvars, ops,
                   destroy_success, vresult, vcalls, fstart, startclean>>

\* Mutant: the create phase of recreate starts at its own validation, without
\* the nested destroy run.
RecreatePhase2NoPreclean ==
    /\ pc = "d_done"
    /\ cmd = "recreate"
    /\ preclean = "none"
    /\ destroy_success' = dresult
    /\ pc' = "c0"
    /\ UNCHANGED <<platform, cmd, prefix, runs, budget, other, aux, faults, dvars, preclean,
                   csteps, cfailed, tokenization_success, cresult, ccaught, ops, vresult,
                   vcalls, prev, fstart, startclean>>

\* setup.py lines 87-95: the destroy phase of recreate has returned; whatever
\* it returned, CreateCommand is built and executed (its first act is the
\* nested destroy run).
RecreatePhase2 ==
    /\ pc = "d_done"
    /\ cmd = "recreate"
    /\ preclean = "none"
    /\ destroy_success' = dresult
    /\ preclean' = "running"
    /\ pc' = "d0"
    /\ successful_deletions' = <<>>
    /\ failed_deletions' = <<>>
    /\ tracking' = FALSE
    /\ dsteps' = <<>>
    /\ dsummary' = FALSE
    /\ dresult' = "none"
    /\ dcaught' = FALSE
    /\ dreported' = {}
    /\ dstill' = {}
    /\ UNCHANGED <<platform, cmd, prefix, runs, budget, other, aux, faults, csteps, cfailed,
                   tokenization_success, cresult, ccaught, ops, vresult, vcalls, prev,
                   fstart, startclean>>

VerifyRun ==
    /\ pc = "v0"
    /\ \E env \in {"ok", "invalid"}, describe \in ProbeOut, count \in ProbeOut,
          sample \in ProbeOut, fn \in ProbeOut :
        LET r == VerifyExecute(remote, prefix, env, describe, count, sample, fn)
            n == Fault(env) + Fault(describe) + Fault(count) + Fault(sample) + Fault(fn)
        IN
        /\ n = r.nf
        /\ Budget(n)
        /\ faults' = faults + n
        /\ vresult' = r.ret
        /\ vcalls' = r.calls
    /\ pc' = "v_done"
    /\ UNCHANGED <<platform, cmd, prefix, runs, budget, other, aux, dvars, cvars, ops, destroy_success, prev,
                   fstart, startclean>>

\* sys.exit: the session records the command that has just ended.
CliExit ==
    /\ Finish
    /\ prev' = [cmd |-> cmd, prefix |-> prefix, result |-> ExitStatus(cmd),
                clean |-> (faults = fstart), startclean |-> startclean]
    /\ destroy_success' = "none"
    /\ vresult' = "none"
    /\ vcalls' = <<>>
    /\ fstart' = 0
    /\ startclean' = FALSE

NextCli ==
    \/ CliCreate
    \/ CliDestroy
    \/ CliRecreate
    \/ CliVerify
    \/ CliRejected
    \/ DestroyValidate
    \/ DestroyStep1
    \/ DestroyStep2
    \/ DestroyStep3
    \/ DestroyStep4
    \/ DestroyStep5
    \/ DestroyStep6
    \/ DestroyStep7
    \/ DestroyStep8
    \/ DestroyReturn
    \/ RecreatePhase2
    \/ CreateValidate
    \/ CreateStep1
    \/ CreateStep2
    \/ CreateStep3
    \/ CreateStep4
    \/ CreateStep5
    \/ CreateStep6
    \/ CreateStep7
    \/ CreateStep8
    \/ CreateStep9
    \/ VerifyRun
    \/ CliExit

InitCli == InitState /\ budget = MaxSessionFaults

SpecCli == InitCli /\ [][NextCli]_vars

\* ------------------------------------------------------------------ two identifiers at once
\* A run for MainPrefix goes through its pipeline while a destroy run for
\* OtherPrefix, started from another shell, goes through its own; the two
\* take turns between steps (every such interleaving is also one at the
\* granularity of single remote calls).
MainPrefix == "demo"
OtherPrefix == "bad"

\* Step k of DestroyCommand.execute for OtherPrefix.
OtherStepOut(k, rem, d, a, b, c) ==
    CASE k = 1 -> DestroyDashboard(rem, d, OtherPrefix, a, b, c)
      [] k = 2 -> DestroyNotebook(rem, d, OtherPrefix, a, b)
      [] k = 3 -> DestroyColumnMasks(rem, d, OtherPrefix, a, b)
      [] k = 4 -> DestroyFunctions(rem, d, OtherPrefix, a, b)
      [] k = 5 -> DestroyTable(rem, d, OtherPrefix, a, b)
      [] k = 6 -> DestroyCatalog(rem, d, OtherPrefix, a, b, c)
      [] k = 7 -> DestroyConnection(rem, d, a, b, c)
      [] OTHER -> DestroySecrets(rem, d, a, b, c)

ConcCreate == Start("create", MainPrefix)

ConcDestroy == Start("destroy", MainPrefix)

\* setup.py destroy for OtherPrefix: build the command, validate_environment
OtherStart ==
    /\ opc = "idle"
    /\ \E env \in {"ok", "invalid"} :
        /\ Budget(Fault(env))
        /\ faults' = faults + Fault(env)
        /\ IF env = "ok"
           THEN opc' = "d1" /\ UNCHANGED oresult
           ELSE opc' = "done" /\ oresult' = "false"
    /\ UNCHANGED <<platform, cmd, prefix, pc, runs, budget, dvars, cvars, ops, session,
                   ofailed, aux>>

\* One step of the destroy run for OtherPrefix, then the next step, the
\* except clause, or the return of line 400.
OtherStep ==
    \E k \in 1..8 :
        /\ opc = "d" \o ToString(k)
        /\ \E a \in ProbeOut, b \in DeleteOut \cup SqlOut, c \in ProbeOut :
            LET r == OtherStepOut(k, remote, dash, a, b, c)
                n == Fault(a) + Fault(b) + Fault(c)
                failed == ofailed \/ r.fail # <<>>
            IN
            /\ b \in (IF k \in 3..5 THEN SqlOut ELSE DeleteOut)
            /\ n = r.nf
            /\ Budget(n)
            /\ faults' = faults + n
            /\ remote' = r.rem
            /\ dash' = r.dash
            /\ ofailed' = failed
            /\ IF r.exc
               THEN opc' = "done" /\ oresult' = "false"
               ELSE IF k < 8
               THEN opc' = "d" \o ToString(k + 1) /\ UNCHANGED oresult
               ELSE opc' = "done" /\ oresult' = IF failed THEN "false" ELSE "true"
        /\ UNCHANGED <<cmd, prefix, pc, runs, budget, dvars, cvars, ops, session, aux>>

NextConc ==
    \/ ConcCreate
    \/ ConcDestroy
    \/ DestroyValidate
    \/ DestroyStep1
    \/ DestroyStep2
    \/ DestroyStep3
    \/ DestroyStep4
    \/ DestroyStep5
    \/ DestroyStep6
    \/ DestroyStep7
    \/ DestroyStep8
    \/ DestroyReturn
    \/ CreateValidate
    \/ CreateStep1
    \/ CreateStep2
    \/ CreateStep3
    \/ CreateStep4
    \/ CreateStep5
    \/ CreateStep6
    \/ CreateStep7
    \/ CreateStep8
    \/ CreateStep9
    \/ Exit
    \/ OtherStart
    \/ OtherStep

InitConc == InitState /\ budget = MaxSessionFaults

SpecConc == InitConc /\ [][NextConc]_vars

\* ------------------------------------------------------------------ RetryExecutor
\* What the successive invocations of a wrapped remote call end in: some
\* transient failures (network, rate limit, 5xx), then one outcome that stays.
Attempts(outs) ==
    {[i \in 1..MaxAttempts |-> IF i <= t THEN "transient" ELSE f] :
        t \in 0..MaxAttempts, f \in outs}

\* DatabricksClientWrapper.execute_with_retry(op): invoke op; a transient
\* failure is retried while attempts are left and surfaces as a permanent
\* failure once they are used up; every other outcome ends the call at once.
\* att[i] is what the i-th invocation would end in.
RECURSIVE RetryFrom(_, _)
RetryFrom(att, i) ==
    IF att[i] = "transient" /\ i < MaxAttempts
    THEN RetryFrom(att, i + 1)
    ELSE [out |-> IF att[i] = "transient" THEN "dberr" ELSE att[i], invoked |-> i,
          att |-> att]

execute_with_retry(att) == RetryFrom(att, 1)

\* ------------------------------------------------------------------ resource operations on their own
\* The create / drop / exists primitives of the managers, called one at a
\* time in any order for MainPrefix on whatever the earlier calls left behind.
create_http_connection(rem, probe, cr) ==
    CreateResource(rem, ConnName, {}, "connections.create", probe, cr)

\* The secret these calls write.
OpsSecretKey == "skyflow_pat_token"

\* What `last` keeps of one call of a primitive: whether the resource existed
\* before, how the existence pre-check ended ("none": the primitive has no
\* pre-check), how often the mutating call was invoked and its net outcome
\* ("none": it was not made) with the way each attempt ended, the value
\* returned, the mutating calls issued, and for a pipeline step the entries it
\* appended to the two lists.
Operation(name, kind, existed, probe, rt, ret, calls, succ, fail) ==
    [op |-> name, kind |-> kind, existed |-> existed, probe |-> probe,
     tries |-> IF calls = <<>> THEN 0 ELSE rt.invoked,
     out |-> IF calls = <<>> THEN "none" ELSE rt.out,
     att |-> IF calls = <<>> THEN <<>> ELSE rt.att,
     ret |-> ret, calls |-> calls, succ |-> succ, fail |-> fail]

\* A call whose wrapped operation is invoked once and ends `out`.
Once(out) == [out |-> out, invoked |-> 1, att |-> <<out>>]

ApplyOperation(o, rem, d) ==
    /\ pc = "idle"
    /\ remote' = rem
    /\ dash' = d
    /\ last' = o
    /\ UNCHANGED <<control, dvars, cvars, ops, session, other, wait_time, polls, observed>>

\* create_catalog, with the attempts of its create call spelled out
OpCreateCatalog ==
    \E probe \in ProbeOut, att \in Attempts(CreateOut) :
        LET rt == execute_with_retry(att)
            r == create_catalog(remote, MainPrefix, probe, rt.out)
        IN ApplyOperation(Operation("create_catalog", "create",
                                    CatalogName(MainPrefix) \in remote, probe, rt, r.ret, r.ops,
                                    <<>>, <<>>),
                          r.rem, dash)

OpCreateSchema ==
    \E probe \in ProbeOut, cr \in CreateOut :
        LET r == create_schema(remote, MainPrefix, probe, cr) IN
        /\ (cr = "ok") => (CatalogName(MainPrefix) \in remote)
        /\ ApplyOperation(Operation("create_schema", "create",
                                    SchemaName(MainPrefix) \in remote, probe, Once(cr), r.ret,
                                    r.ops, <<>>, <<>>),
                          r.rem, dash)

OpCreateConnection ==
    \E probe \in ProbeOut, cr \in CreateOut :
        LET r == create_http_connection(remote, probe, cr) IN
        ApplyOperation(Operation("create_http_connection", "create", ConnName \in remote,
                                 probe, Once(cr), r.ret, r.ops, <<>>, <<>>),
                       r.rem, dash)

OpCreateSecretScope ==
    \E list \in ProbeOut, cr \in CreateOut :
        LET r == create_secret_scope(remote, list, cr) IN
        ApplyOperation(Operation("create_secret_scope", "create", ScopeName \in remote, list,
                                 Once(cr), r.ret, r.ops, <<>>, <<>>),
                       r.rem, dash)

OpPutSecret ==
    \E put \in CreateOut :
        LET r == put_secret(remote, OpsSecretKey, put) IN
        /\ (put = "ok") => (ScopeName \in remote)
        /\ ApplyOperation(Operation("put_secret", "create",
                                    SecretName(OpsSecretKey) \in remote, "none", Once(put),
                                    r.ret, r.ops, <<>>, <<>>),
                          r.rem, dash)

OpCreateNotebook ==
    \E up \in CreateOut :
        LET r == create_notebook_from_file(remote, MainPrefix, up) IN
        ApplyOperation(Operation("create_notebook_from_file", "create",
                                 NotebookPath(MainPrefix) \in remote, "none", Once(up), r.ret,
                                 r.ops, <<>>, <<>>),
                       r.rem, dash)

\* create_dashboard_from_file returns the URL or None: "true" stands for a URL.
OpCreateDashboard ==
    \E list \in ProbeOut, del \in DeleteOut, cr \in CreateOut :
        LET r == create_dashboard_from_file(dash, MainPrefix, list, del, cr) IN
        /\ (cr = "ok") => (r.ret = "url")
        /\ ApplyOperation(Operation("create_dashboard_from_file", "create",
                                    dash[MainPrefix] > 0, list, Once(cr),
                                    IF r.ret = "url" THEN "true" ELSE "false", r.ops, <<>>,
                                    <<>>),
                          remote, r.dash)

OpDropCatalog ==
    \E probe \in ProbeOut, del \in DeleteOut :
        LET r == drop_catalog(remote, MainPrefix, probe, del) IN
        ApplyOperation(Operation("drop_catalog", "drop", CatalogName(MainPrefix) \in remote,
                                 probe, Once(del), r.ret, r.ops, <<>>, <<>>),
                       r.rem, dash)

OpDropConnection ==
    \E probe \in ProbeOut, del \in DeleteOut :
        LET r == drop_connection(remote, probe, del) IN
        ApplyOperation(Operation("drop_connection", "drop", ConnName \in remote, probe,
                                 Once(del), r.ret, r.ops, <<>>, <<>>),
                       r.rem, dash)

OpDeleteSecretScope ==
    \E list \in ProbeOut, del \in DeleteOut :
        LET r == delete_secret_scope(remote, list, del) IN
        ApplyOperation(Operation("delete_secret_scope", "drop", ScopeName \in remote, list,
                                 Once(del), r.ret, r.ops, <<>>, <<>>),
                       r.rem, dash)

OpDeleteNotebook ==
    \E probe \in ProbeOut, del \in DeleteOut :
        LET r == delete_notebook(remote, MainPrefix, probe, del) IN
        ApplyOperation(Operation("delete_notebook", "drop", NotebookPath(MainPrefix) \in remote,
                                 probe, Once(del), r.ret, r.ops, <<>>, <<>>),
                       r.rem, dash)

\* Destroy step 2 on its own, with the attempts of its delete call spelled out
OpDestroyNotebookStep ==
    \E probe \in ProbeOut, att \in Attempts(DeleteOut) :
        LET rt == execute_with_retry(att)
            r == DestroyNotebook(remote, dash, MainPrefix, probe, rt.out)
        IN ApplyOperation(Operation("destroy_step_2", "step",
                                    NotebookPath(MainPrefix) \in remote, probe, rt,
                                    IF r.exc THEN "raise" ELSE "none", r.ops, r.succ, r.fail),
                          r.rem, r.dash)

\* delete_dashboard(dashboard_id) with the id of a dashboard of that name, or
\* with an id that no longer names one: the platform then answers "not found".
OpDeleteDashboard ==
    \E del \in DeleteOut \cup {"notfound"} :
        LET r == delete_dashboard(dash, MainPrefix, del) IN
        /\ (del = "notfound") => (dash[MainPrefix] = 0)
        /\ (del \in {"ok", "stale"}) => (dash[MainPrefix] > 0)
        /\ ApplyOperation(Operation("delete_dashboard", "drop", dash[MainPrefix] > 0, "none",
                                    Once(del), r.ret, r.ops, <<>>, <<>>),
                          remote, r.dash)

\* ------------------------------------------------------------------ SQL files, statement by statement
\* How the single calls made for one statement end.  first: the net outcome
\* of execute_with_retry(execute), a statement state or an error; waited: what
\* wait_for_completion returned for a PENDING/RUNNING statement; final: what
\* the get_statement call after a completed wait shows.
StatementStates == {"SUCCEEDED", "FAILED", "CANCELED", "PENDING", "RUNNING"}

Statement(first, waited, final) == [first |-> first, waited |-> waited, final |-> final]

StatementInputs ==
    {Statement(f, "none", "none") : f \in {"SUCCEEDED", "FAILED", "CANCELED", "dberr", "exc"}}
        \cup {Statement(f, "timeout", "none") : f \in {"PENDING", "RUNNING"}}
        \cup {Statement(f, "done", g) :
                f \in {"PENDING", "RUNNING"},
                g \in {"SUCCEEDED", "FAILED", "CANCELED", "dberr", "exc"}}

\* SQLExecutor.execute_statement: the response if the last state seen is
\* SUCCEEDED, None for any other state and on DatabricksError; another error
\* propagates.  After a wait that timed out the state is still the first one.
execute_statement(s) ==
    LET state == IF s.first \in {"PENDING", "RUNNING"} /\ s.waited = "done" THEN s.final
                 ELSE s.first
    IN
    [ret |-> CASE state = "exc" -> "raise"
               [] state = "SUCCEEDED" -> "response"
               [] OTHER -> "none",
     state |-> state,
     timedout |-> s.first \in {"PENDING", "RUNNING"} /\ s.waited = "timeout"]

\* Mutant: a failed statement does not end the loop.
RECURSIVE RunStatementsNoBreak(_, _, _)
RunStatementsNoBreak(stmts, i, acc) ==
    IF i > Len(stmts)
    THEN acc
    ELSE LET r == execute_statement(stmts[i])
             done == Append(acc.executed, i)
         IN
         CASE r.ret = "raise" ->
                  [ret |-> "false", executed |-> done, failed_at |-> acc.failed_at,
                   error |-> TRUE, timedout |-> acc.timedout]
           [] r.ret = "none" ->
                  RunStatementsNoBreak(stmts, i + 1,
                                       [ret |-> "false", executed |-> done,
                                        failed_at |-> IF acc.failed_at = 0 THEN i
                                                      ELSE acc.failed_at,
                                        error |-> FALSE,
                                        timedout |-> acc.timedout \/ r.timedout])
           [] OTHER -> RunStatementsNoBreak(stmts, i + 1, [acc EXCEPT !.executed = done])

\* The loop of execute_sql_file (lines 92-111) over the statements of the
\* file: executed lists the statements handed to execute_statement, failed_at
\* is the index printed by "Failed to execute statement i" (0: not printed),
\* error tells that the except clause printed the error instead.
RECURSIVE RunStatements(_, _, _)
RunStatements(stmts, i, acc) ==
    IF i > Len(stmts)
    THEN acc
    ELSE LET r == execute_statement(stmts[i])
             done == Append(acc.executed, i)
         IN
         CASE r.ret = "raise" ->
                  [ret |-> "false", executed |-> done, failed_at |-> 0, error |-> TRUE,
                   timedout |-> FALSE]
           [] r.ret = "none" ->
                  [ret |-> "false", executed |-> done, failed_at |-> i, error |-> FALSE,
                   timedout |-> r.timedout]
           [] OTHER -> RunStatements(stmts, i + 1, [acc EXCEPT !.executed = done])

\* Mutant: execute_sql_file without the break.
ExecuteStatementsNoBreak(stmts) ==
    RunStatementsNoBreak(stmts, 1,
                         [ret |-> "true", executed |-> <<>>, failed_at |-> 0,
                          error |-> FALSE, timedout |-> FALSE])

ExecuteStatements(stmts) ==
    RunStatements(stmts, 1,
                  [ret |-> "true", executed |-> <<>>, failed_at |-> 0, error |-> FALSE,
                   timedout |-> FALSE])

\* What execute_sql_file makes of it for its caller.
SqlFileOut(stmts) == IF ExecuteStatements(stmts).ret = "true" THEN "ok" ELSE "fail"

\* The first statement that does not end SUCCEEDED (0: there is none).
FirstBad(stmts) ==
    LET bad == {i \in 1..Len(stmts) : execute_statement(stmts[i]).ret # "response"} IN
    IF bad = {} THEN 0 ELSE CHOOSE i \in bad : \A j \in bad : i <= j

\* The files that differ in what execute_sql_file does with them: up to
\* MaxStatements statements which all succeed but one.
StatementFiles ==
    {<<>>} \cup
    UNION {{[i \in 1..n |-> IF i = k THEN s ELSE Statement("SUCCEEDED", "none", "none")] :
               k \in 1..n, s \in StatementInputs} : n \in 1..MaxStatements}

SqlOperation(name, k, stmts, x, ret, calls, succ, fail) ==
    [op |-> name, kind |-> "sql", step |-> k, n |-> Len(stmts), firstbad |-> FirstBad(stmts),
     executed |-> x.executed, failed_at |-> x.failed_at, error |-> x.error,
     timedout |-> x.timedout, fileret |-> x.ret, ret |-> ret, calls |-> calls,
     succ |-> succ, fail |-> fail]

\* execute_sql_file("sql/setup/create_sample_table.sql") on its own
OpExecuteSqlFile ==
    \E stmts \in StatementFiles :
        LET file == "sql/setup/create_sample_table.sql"
            x == ExecuteStatements(stmts)
            r == RunSqlFile(remote, file, MainPrefix, SqlFileOut(stmts))
        IN
        /\ SqlCan(remote, file, MainPrefix)
        /\ ApplyOperation(SqlOperation("execute_sql_file", 0, stmts, x, r.ret, r.ops, <<>>,
                                       <<>>),
                          r.rem, dash)

\* Destroy steps 3, 4 and 5 on their own, their SQL file statement by statement
DestroySqlStep(k, rem, d, p, probe, sql) ==
    CASE k = 3 -> DestroyColumnMasks(rem, d, p, probe, sql)
      [] k = 4 -> DestroyFunctions(rem, d, p, probe, sql)
      [] OTHER -> DestroyTable(rem, d, p, probe, sql)

NoStatements ==
    [ret |-> "none", executed |-> <<>>, failed_at |-> 0, error |-> FALSE, timedout |-> FALSE]

OpDestroySqlStep ==
    \E k \in 3..5, probe \in ProbeOut, stmts \in StatementFiles :
        LET r == DestroySqlStep(k, remote, dash, MainPrefix, probe, SqlFileOut(stmts))
            x == IF r.ops = <<>> THEN NoStatements ELSE ExecuteStatements(stmts)
        IN
        /\ (r.ops = <<>>) => (stmts = <<>>)
        /\ ApplyOperation(SqlOperation("destroy_step", k, stmts, x,
                                       IF r.exc THEN "raise" ELSE "none", r.ops, r.succ,
                                       r.fail),
                          r.rem, r.dash)

NextOps ==
    \/ OpCreateCatalog
    \/ OpCreateSchema
    \/ OpCreateConnection
    \/ OpCreateSecretScope
    \/ OpPutSecret
    \/ OpCreateNotebook
    \/ OpCreateDashboard
    \/ OpDropCatalog
    \/ OpDropConnection
    \/ OpDeleteSecretScope
    \/ OpDeleteNotebook
    \/ OpDeleteDashboard
    \/ OpDestroyNotebookStep

InitOps == InitState /\ budget = 0

SpecOps == InitOps /\ [][NextOps]_vars

\* What `last` keeps of one create step run on its own: what each manager
\* call the step makes returned, in the order of the calls, the remote calls
\* each of them issued, the value the step returned and the remote calls it
\* issued.
SetupOperation(name, parts, partcalls, ret, calls) ==
    [op |-> name, kind |-> "setup", parts |-> parts, partcalls |-> partcalls, ret |-> ret,
     calls |-> calls]

\* Create step 1 on its own
OpSetupUnityCatalog ==
    \E probe1 \in ProbeOut, cr1 \in CreateOut, probe2 \in ProbeOut, cr2 \in CreateOut :
        LET a == create_catalog(remote, MainPrefix, probe1, cr1)
            b == create_schema(a.rem, MainPrefix, probe2, cr2)
            r == SetupUnityCatalog(remote, dash, MainPrefix, probe1, cr1, probe2, cr2)
        IN ApplyOperation(SetupOperation("_setup_unity_catalog",
                                         IF a.ret = "raise" THEN <<a.ret>>
                                         ELSE <<a.ret, b.ret>>,
                                         IF a.ret = "raise" THEN <<a.ops>>
                                         ELSE <<a.ops, b.ops>>,
                                         r.ret, r.ops),
                          r.rem, r.dash)

\* Create step 2 on its own: the scope, then the writes up to the first one
\* that raises; at most MaxFaults of its remote calls fail.
OpSetupSecrets ==
    \E list \in ProbeOut, cr \in CreateOut, puts \in [1..4 -> CreateOut] :
        /\ Fault(list) + Fault(cr) + Fault(puts[1]) + Fault(puts[2]) + Fault(puts[3])
               + Fault(puts[4]) <= MaxFaults
        /\ LET sc == create_secret_scope(remote, list, cr)
               w == [i \in 1..4 |-> put_secret(sc.rem, SecretOrder[i], puts[i])]
               raised == {i \in 1..4 : w[i].ret = "raise"}
               n == IF sc.ret # "true" THEN 0
                    ELSE IF raised = {} THEN 4
                    ELSE CHOOSE i \in raised : \A j \in raised : i <= j
               r == setup_skyflow_secrets(remote, list, cr, puts)
           IN ApplyOperation(SetupOperation("setup_skyflow_secrets",
                                            <<sc.ret>> \o [i \in 1..n |-> w[i].ret],
                                            <<sc.ops>> \o [i \in 1..n |-> w[i].ops],
                                            r.ret, r.ops),
                             r.rem, dash)

\* Create step 2 on a platform whose secret scope comes and goes.
NextSecrets ==
    \/ OpSetupSecrets
    \/ OpDeleteSecretScope

SpecSecrets == InitOps /\ [][NextSecrets]_vars

\* The two SQL files of create step 3.
ConnectionsFile == "sql/setup/create_uc_connections.sql"
FunctionsFile == "sql/setup/setup_uc_connections_api.sql"

\* The statements handed to execute_statement by the files a step executed
\* (calls), as <<file, index>> with file 1 or 2.
IssuedStatements(calls, stmts1, stmts2) ==
    LET x1 == ExecuteStatements(stmts1).executed
        x2 == ExecuteStatements(stmts2).executed
    IN
    (IF \E i \in 1..Len(calls) : calls[i] = ConnectionsFile
     THEN [i \in 1..Len(x1) |-> <<1, x1[i]>>] ELSE <<>>)
        \o (IF \E i \in 1..Len(calls) : calls[i] = FunctionsFile
            THEN [i \in 1..Len(x2) |-> <<2, x2[i]>>] ELSE <<>>)

\* What `last` keeps of create step 3: what execute_sql_file returned for
\* each file, the first statement of the connection file that did not
\* succeed (0: none), the statements issued, the value the step returned and
\* the files it executed.
ConnectionsOperation(parts, firstbad, statements, ret, calls) ==
    [op |-> "_setup_connections", kind |-> "setup", parts |-> parts, firstbad |-> firstbad,
     statements |-> statements, ret |-> ret, calls |-> calls]

\* Create step 3 on its own, its two files statement by statement; the
\* functions need the schema they are created in.
OpSetupConnections ==
    \E stmts1 \in StatementFiles, stmts2 \in {f \in StatementFiles : Len(f) <= 1} :
      \E sql1 \in {SqlFileOut(stmts1)}, sql2 \in {SqlFileOut(stmts2)} :
        LET a == RunSqlFile(remote, ConnectionsFile, MainPrefix, sql1)
            b == RunSqlFile(a.rem, FunctionsFile, MainPrefix, sql2)
            r == SetupConnections(remote, dash, MainPrefix, sql1, sql2)
        IN
        /\ (sql2 = "ok") => SqlCan(a.rem, FunctionsFile, MainPrefix)
        /\ ApplyOperation(ConnectionsOperation(<<a.ret, b.ret>>, FirstBad(stmts1),
                                               IssuedStatements(r.ops, stmts1, stmts2),
                                               r.ret, r.ops),
                          r.rem, r.dash)

\* Create steps 1 and 3, each on its own, on a platform whose catalog and
\* connection come and go.
NextSetup ==
    \/ OpSetupUnityCatalog
    \/ OpSetupConnections
    \/ OpDropCatalog
    \/ OpDropConnection

SpecSetup == InitOps /\ [][NextSetup]_vars

\* setup_customer_insights_dashboard on its own (create step 9 calls nothing
\* else that touches the platform), for either identifier; "true" stands for
\* a URL.
OpSetupDashboard ==
    \E p \in Prefixes, list1 \in ProbeOut, list2 \in ProbeOut, del \in DeleteOut,
       cr \in CreateOut :
        LET r == setup_customer_insights_dashboard(dash, p, list1, list2, del, cr) IN
        /\ (cr = "ok") => (r.ret = "url" \/ r.ops = <<>>)
        /\ ApplyOperation(Operation("setup_customer_insights_dashboard", "create",
                                    dash[p] > 0, list1, Once(cr),
                                    CASE r.ret = "url" -> "true"
                                      [] r.ret = "raise" -> "raise"
                                      [] OTHER -> "false",
                                    r.ops, <<>>, <<>>),
                          remote, r.dash)

\* Destroy step 1 on its own, for either identifier
OpDestroyDashboardStep ==
    \E p \in Prefixes, list1 \in ProbeOut, del \in DeleteOut, list2 \in ProbeOut :
        LET r == DestroyDashboard(remote, dash, p, list1, del, list2) IN
        ApplyOperation(Operation("destroy_step_1", "step", dash[p] > 0, list1, Once(del),
                                 IF r.exc THEN "raise" ELSE "none", r.ops, r.succ, r.fail),
                       r.rem, r.dash)

\* The dashboard of one identifier under the calls that create and delete it.
NextDash ==
    \/ OpSetupDashboard
    \/ OpCreateDashboard
    \/ OpDeleteDashboard
    \/ OpDestroyDashboardStep

SpecDash == InitOps /\ [][NextDash]_vars

\* The SQL files and the steps around them, on a catalog that comes and goes.
NextSql ==
    \/ OpCreateCatalog
    \/ OpCreateSchema
    \/ OpDropCatalog
    \/ OpExecuteSqlFile
    \/ OpDestroySqlStep

SpecSql == InitOps /\ [][NextSql]_vars

\* ------------------------------------------------------------------ the job run, poll by poll
\* What one jobs.get_run call of the monitor shows: a life-cycle state, for
\* TERMINATED with the result state, or "error" when the call raised.
RunningStates == {"PENDING", "RUNNING"}
FailedStates ==
    {"TERMINATED/FAILED", "TERMINATED/CANCELED", "INTERNAL_ERROR", "FAILED", "TIMEDOUT",
     "CANCELED", "SKIPPED"}
PollOut == RunningStates \cup FailedStates \cup {"TERMINATED/SUCCESS", "error"}

max_wait_seconds == timeout_minutes * 60
PollSeconds == 30

\* Mutant: the loop runs once more when the budget is just used up.
MonitorLoopOffByOne(w) == w <= max_wait_seconds

\* _monitor_job_execution_sdk: while wait_time < max_wait_seconds
MonitorLoop(w) == w < max_wait_seconds

\* Mutant: TERMINATED counts as success whatever the result state.
MonitorResultAnyTerminated(st) ==
    CASE st \in {"TERMINATED/SUCCESS", "TERMINATED/FAILED", "TERMINATED/CANCELED"} -> "true"
      [] st \in FailedStates -> "false"
      [] OTHER -> "continue"

\* Mutant: an error of the status call ends the monitor with False.
MonitorResultErrorFails(st) ==
    CASE st = "TERMINATED/SUCCESS" -> "true"
      [] st \in FailedStates \cup {"error"} -> "false"
      [] OTHER -> "continue"

\* The body of the loop: return True, return False, or sleep and go on (any
\* other state, and an error of the status call).
MonitorResult(st) ==
    CASE st = "TERMINATED/SUCCESS" -> "true"
      [] st \in FailedStates -> "false"
      [] OTHER -> "continue"

\* run_notebook_job lines 87-110: the submit call; an error gives False
JobSubmit ==
    /\ pc = "c7"
    /\ \E sub \in CreateOut :
        /\ Budget(Fault(sub))
        /\ IF sub = "ok"
           THEN /\ pc' = "c7_poll"
                /\ faults' = faults
                /\ ops' = Append(ops, "jobs.submit")
                /\ wait_time' = 0
                /\ polls' = 0
                /\ observed' = "none"
                /\ UNCHANGED <<platform, cmd, prefix, runs, budget, other, last, dvars, cvars,
                               session>>
           ELSE CreateApply(CreateOutcome("false", remote, dash, <<"jobs.submit">>, 1), 7, 1,
                            FALSE)

\* One pass of the monitor's loop: the status call, then for a run that goes
\* on (or a status call that failed) the sleep.  The run can only end
\* SUCCESS on an uploaded notebook and an existing table.
JobPoll ==
    /\ pc = "c7_poll"
    /\ MonitorResult(observed) = "continue"
    /\ MonitorLoop(wait_time)
    /\ \E st \in PollOut :
        LET n == IF st \in RunningStates \cup {"TERMINATED/SUCCESS"} THEN 0 ELSE 1 IN
        /\ Budget(n)
        /\ (st = "TERMINATED/SUCCESS") =>
               (NotebookPath(prefix) \in remote /\ TableName(prefix) \in remote)
        /\ faults' = faults + n
        /\ polls' = polls + 1
        /\ observed' = st
        /\ wait_time' = IF MonitorResult(st) = "continue" THEN wait_time + PollSeconds
                        ELSE wait_time
    /\ UNCHANGED <<platform, cmd, prefix, pc, runs, budget, other, last, dvars, cvars, ops,
                   session>>

\* The monitor returns: True or False from inside the loop, False after it.
JobReturn ==
    /\ pc = "c7_poll"
    /\ MonitorResult(observed) # "continue" \/ ~MonitorLoop(wait_time)
    /\ CreateApply(CreateOutcome(IF MonitorResult(observed) = "true" THEN "true" ELSE "false",
                                 remote, dash, <<>>, 0),
                   7, 0, FALSE)

LiveCreate == Start("create", MainPrefix)

LiveDestroy == Start("destroy", MainPrefix)

NextLive ==
    \/ LiveCreate
    \/ LiveDestroy
    \/ DestroyValidate
    \/ DestroyStep1
    \/ DestroyStep2
    \/ DestroyStep3
    \/ DestroyStep4
    \/ DestroyStep5
    \/ DestroyStep6
    \/ DestroyStep7
    \/ DestroyStep8
    \/ DestroyReturn
    \/ CreateValidate
    \/ CreateStep1
    \/ CreateStep2
    \/ CreateStep3
    \/ CreateStep4
    \/ CreateStep5
    \/ CreateStep6
    \/ JobSubmit
    \/ JobPoll
    \/ JobReturn
    \/ CreateStep8
    \/ CreateStep9
    \/ Exit

InitLive == InitState /\ budget = MaxSessionFaults

\* Each remote call returns and the program goes on to its next statement.
SpecLive == InitLive /\ [][NextLive]_vars /\ WF_vars(NextLive)

\* ------------------------------------------------------------------ two integrations side by side
\* The resources whose names are derived from identifier p.
PrefixDerived(p) == {CatalogName(p), NotebookPath(p)} \cup CatalogContents(p)

\* What create runs for every identifier of Prefixes leave on the platform:
\* their derived resources, one dashboard each, and the connection and the
\* secret scope they share.
InitPair ==
    /\ remote = UNION {PrefixDerived(p) : p \in Prefixes} \cup {ConnName, ScopeName}
                    \cup ScopeContents
    /\ dash = [p \in Identifiers |-> IF p \in Prefixes THEN 1 ELSE 0]
    /\ InitControl
    /\ budget = MaxSessionFaults

\* Destroy runs, for one identifier and then for the other.
NextPair ==
    \/ StartDestroy
    \/ DestroyValidate
    \/ DestroyStep1
    \/ DestroyStep2
    \/ DestroyStep3
    \/ DestroyStep4
    \/ DestroyStep5
    \/ DestroyStep6
    \/ DestroyStep7
    \/ DestroyStep8
    \/ Exit

SpecPair == InitPair /\ [][NextPair]_vars

\* The first create run for MainPrefix on an empty workspace, about to submit
\* the tokenization job: the nested destroy run found nothing to delete and
\* steps 1 to 6 succeeded, every remote call having succeeded.
AtJobStep ==
    /\ remote = {CatalogName(MainPrefix), SchemaName(MainPrefix), TableName(MainPrefix),
                 FunctionName(MainPrefix), NotebookPath(MainPrefix), ConnName, ScopeName}
                    \cup ScopeContents
    /\ dash = [p \in Identifiers |-> 0]
    /\ cmd = "create"
    /\ prefix = MainPrefix
    /\ pc = "c7"
    /\ runs = 1
    /\ faults = 0
    /\ successful_deletions =
           <<"Dashboard: " \o DashboardName(MainPrefix) \o " (didn't exist)",
             "Notebook: " \o NotebookPath(MainPrefix),
             "Column masks (catalog didn't exist)",
             "Functions (catalog didn't exist)",
             "Sample table (catalog didn't exist)",
             "Catalog: " \o CatalogName(MainPrefix),
             "Connection: " \o ConnName,
             "Secret scope: " \o ScopeName>>
    /\ failed_deletions = <<>>
    /\ tracking = TRUE
    /\ dsteps = <<1, 2, 3, 4, 5, 6, 7, 8>>
    /\ dsummary = TRUE
    /\ dresult = "true"
    /\ dcaught = FALSE
    /\ dreported = {}
    /\ dstill = {}
    /\ preclean = "true"
    /\ csteps = <<1, 2, 3, 4, 5, 6>>
    /\ cfailed = {}
    /\ tokenization_success = FALSE
    /\ cresult = "none"
    /\ ccaught = FALSE
    /\ ops = <<"catalogs.create", "schemas.create", "secrets.create_scope",
               "secrets.put_secret", "secrets.put_secret", "secrets.put_secret",
               "secrets.put_secret", "sql/setup/create_uc_connections.sql",
               "sql/setup/setup_uc_connections_api.sql",
               "sql/setup/create_sample_table.sql", "workspace.upload",
               "sql/verify/verify_functions.sql">>
    /\ destroy_success = "none"
    /\ vresult = "none"
    /\ vcalls = <<>>
    /\ prev = NoCommand
    /\ fstart = 0
    /\ startclean = FALSE
    /\ opc = "idle"
    /\ ofailed = FALSE
    /\ oresult = "none"
    /\ last = NoOperation
    /\ wait_time = 0
    /\ polls = 0
    /\ observed = "none"

\* From there on every status call of the monitor may fail.
InitPoll == AtJobStep /\ budget = max_wait_seconds \div PollSeconds

\* The job step and what follows it in the run.
NextPoll ==
    \/ JobSubmit
    \/ JobPoll
    \/ JobReturn
    \/ CreateStep8
    \/ CreateStep9
    \/ Exit

SpecPoll == InitPoll /\ [][NextPoll]_vars

\* ------------------------------------------------------------------ properties
Range(q) == {q[i] : i \in 1..Len(q)}

AllDestroySteps == <<1, 2, 3, 4, 5, 6, 7, 8>>

\* The entries by which a destroy step can appear in one of the two lists.
StepEntries(k, p) ==
    CASE k = 1 -> {"Dashboard: " \o DashboardName(p),
                   "Dashboard: " \o DashboardName(p) \o " (still exists)",
                   "Dashboard: " \o DashboardName(p) \o " (didn't exist)"}
      [] k = 2 -> {"Notebook: " \o NotebookPath(p)}
      [] k = 3 -> {"Column masks removed", "Column masks (skipped)",
                   "Column masks (catalog didn't exist)"}
      [] k = 4 -> {"Unity Catalog functions", "Functions (catalog didn't exist)"}
      [] k = 5 -> {"Sample table", "Sample table (catalog didn't exist)"}
      [] k = 6 -> {"Catalog: " \o CatalogName(p),
                   "Catalog: " \o CatalogName(p) \o " (still exists)"}
      [] k = 7 -> {"Connection: skyflow_conn", "Connection: skyflow_conn (still exists)"}
      [] OTHER -> {"Secret scope: skyflow-secrets",
                   "Secret scope: skyflow-secrets (still exists)"}

StillEntry(k, p) ==
    CASE k = 1 -> "Dashboard: " \o p \o "_customer_insights_dashboard (still exists)"
      [] k = 6 -> "Catalog: " \o p \o "_catalog (still exists)"
      [] k = 7 -> "Connection: skyflow_conn (still exists)"
      [] OTHER -> "Secret scope: skyflow-secrets (still exists)"

\* C1: a create step 1-5 that reports failure ends the run there with result
\* false: the steps attempted are exactly 1..k and nothing later is issued.
C1_FatalStepStops ==
    \A k \in 1..5 :
        k \in cfailed =>
            /\ pc = "c_done"
            /\ cresult = "false"
            /\ csteps = [i \in 1..k |-> i]

C1_Witness ==
    /\ prefix = "bad"
    /\ cfailed = {2}
    /\ csteps = <<1, 2>>
    /\ cresult = "false"
    /\ CatalogName("bad") \in remote

\* C2 (as claimed): once steps 1-5 have all succeeded the create run returns
\* true, whatever happens in steps 6-9.
C2_NonFatalNeverFails ==
    (pc = "c_done" /\ (1..5) \subseteq Range(csteps) /\ cfailed \cap (1..5) = {})
        => cresult = "true"

\* C3: the column-mask SQL is executed only after a successful tokenization
\* job, and a create run that reached step 7 always attempts step 9.
C3_MasksGatedDashboardAlways ==
    /\ "sql/setup/apply_column_masks.sql" \in Range(ops) => tokenization_success
    /\ (pc = "c_done" /\ 7 \in Range(csteps)) => 9 \in Range(csteps)

C3_Witness ==
    /\ pc = "c_done"
    /\ cfailed = {6, 7}
    /\ csteps = <<1, 2, 3, 4, 5, 6, 7, 8, 9>>
    /\ "sql/setup/apply_column_masks.sql" \notin Range(ops)
    /\ "lakeview.create" \in Range(ops)

\* C4: no create step is attempted before the nested destroy run has
\* returned, and whatever that run returned the create run goes on to its own
\* validation and steps.
C4_PrecleanFirst ==
    /\ [](csteps # <<>> => preclean \in {"true", "false"})
    /\ [][(cmd = "create" /\ pc = "d_done") => pc' = "c0"]_vars

C4_Witness ==
    /\ cmd = "create"
    /\ preclean = "false"
    /\ dcaught
    /\ 1 \in Range(csteps)

C6_EveryStepRecorded ==
    (pc = "d_done" /\ dsummary) =>
        \A k \in 1..8 :
            StepEntries(k, prefix) \cap
                (Range(successful_deletions) \cup Range(failed_deletions)) # {}

\* C7 (as claimed): a destroy step whose delete operation reported failure is
\* recorded in failed_deletions, the remaining steps run and the result is false.
C7_FailedDeleteRecorded ==
    (pc = "d_done" /\ ~dcaught) =>
        \A k \in dreported :
            /\ StepEntries(k, prefix) \cap Range(failed_deletions) # {}
            /\ dsteps = AllDestroySteps
            /\ dresult = "false"

\* C8: a step whose post-delete probe still finds the resource has its
\* "(still exists)" entry in failed_deletions and the run returns false.
C8_StillExistsIsFailure ==
    \A k \in dstill :
        /\ StillEntry(k, prefix) \in Range(failed_deletions)
        /\ pc = "d_done" => dresult = "false"

C8_Witness ==
    /\ pc = "d_done"
    /\ prefix = "demo"
    /\ 6 \in dstill
    /\ "Catalog: demo_catalog" \in Range(successful_deletions)
    /\ "Catalog: demo_catalog (still exists)" \in Range(failed_deletions)
    /\ dresult = "false"

C10_TrueMeansGone ==
    (pc = "d_done" /\ dresult = "true") =>
        /\ dash[prefix] = 0
        /\ NotebookPath(prefix) \notin remote
        /\ CatalogName(prefix) \notin remote
        /\ ConnName \notin remote
        /\ ScopeName \notin remote

\* C11: when a create run is followed immediately by a destroy run for the
\* same identifier and no remote call fails in either, no resource with a
\* derived name exists after the destroy run: catalog, schema, table,
\* functions, masks, notebook, dashboard, connection and secret scope are gone.
C11_CreateThenDestroyLeavesNothing ==
    (/\ cmd = "destroy"
     /\ pc = "d_done"
     /\ faults = fstart
     /\ prev.cmd = "create"
     /\ prev.prefix = prefix
     /\ prev.clean)
        => Clean(remote, dash, prefix)

C11_Witness ==
    /\ cmd = "destroy"
    /\ pc = "d_done"
    /\ faults = fstart
    /\ prev = [cmd |-> "create", prefix |-> "demo", result |-> "true", clean |-> TRUE,
               startclean |-> TRUE]
    /\ "catalogs.delete" \in Range(ops)
    /\ "secrets.delete_scope" \in Range(ops)
    /\ "Dashboard: demo_customer_insights_dashboard" \in Range(successful_deletions)
    /\ Clean(remote, dash, prefix)

C13_SecondCreateAsFresh ==
    (/\ cmd = "create"
     /\ pc = "c_done"
     /\ faults = fstart
     /\ prev.cmd = "create"
     /\ prev.prefix = prefix)
        => /\ preclean = "true"
           /\ cfailed = {}
           /\ cresult = "true"
           /\ OwnResources(prefix) \subseteq remote
           /\ dash[prefix] = 1

C13_Witness ==
    /\ cmd = "create"
    /\ pc = "c_done"
    /\ faults = fstart
    /\ prev = [cmd |-> "create", prefix |-> "demo", result |-> "true", clean |-> TRUE,
               startclean |-> TRUE]
    /\ ~startclean
    /\ "catalogs.delete" \in Range(ops)
    /\ "catalogs.create" \in Range(ops)
    /\ cresult = "true"

\* C14: on a fresh environment and without remote failures a create run
\* returns true and leaves <prefix>_catalog existing; the destroy run that
\* follows returns true and leaves <prefix>_catalog absent.
C14_FreshCreateThenDestroy ==
    /\ (/\ cmd = "create"
        /\ pc = "c_done"
        /\ startclean
        /\ faults = fstart)
           => (cresult = "true" /\ CatalogName(prefix) \in remote)
    /\ (/\ cmd = "destroy"
        /\ pc = "d_done"
        /\ faults = fstart
        /\ prev.cmd = "create"
        /\ prev.prefix = prefix
        /\ prev.startclean
        /\ prev.clean)
           => (prev.result = "true" /\ dresult = "true" /\ CatalogName(prefix) \notin remote)

C14_Witness ==
    /\ cmd = "destroy"
    /\ prefix = "demo"
    /\ pc = "d_done"
    /\ faults = 0
    /\ prev.cmd = "create"
    /\ prev.startclean
    /\ prev.result = "true"
    /\ "Catalog: demo_catalog" \in Range(successful_deletions)
    /\ dresult = "true"
    /\ "demo_catalog" \notin remote

\* C15: recreate runs the destroy pipeline first; whatever that returned it
\* then builds and executes the create command, and the exit status of
\* recreate is the result of that create run alone.
C15_RecreateResultIsCreate ==
    /\ []((cmd = "recreate" /\ (preclean # "none" \/ csteps # <<>>))
             => destroy_success \in {"true", "false"})
    /\ [][(cmd = "recreate" /\ pc = "d_done" /\ preclean = "none")
             => (pc' = "d0" /\ preclean' = "running" /\ destroy_success' = dresult)]_vars
    /\ [][(cmd = "recreate" /\ cmd' # "recreate")
             => (/\ pc = "c_done"
                 /\ preclean \in {"true", "false"}
                 /\ prev'.cmd = "recreate"
                 /\ prev'.result = cresult)]_vars

C15_Witness ==
    /\ cmd = "recreate"
    /\ pc = "c_done"
    /\ destroy_success = "false"
    /\ preclean = "true"
    /\ csteps = <<1, 2, 3, 4, 5, 6, 7, 8, 9>>
    /\ cresult = "true"

\* C16: no pipeline runs for an identifier that fails prefix validation: the
\* command is never inside execute for such an identifier, and the command
\* line given one ends with status 1 without touching the platform or issuing
\* a call.
C16_InvalidPrefixRunsNothing ==
    /\ [](pc # "idle" => validate_prefix(prefix))
    /\ [][(prev' # prev /\ ~validate_prefix(prev'.prefix))
             => (/\ pc = "idle"
                 /\ pc' = "idle"
                 /\ prev'.result = "false"
                 /\ remote' = remote
                 /\ dash' = dash
                 /\ ops' = ops
                 /\ faults' = faults)]_vars

C16_Witness ==
    /\ prev.cmd = "create"
    /\ prev.prefix = "no good!"
    /\ prev.result = "false"
    /\ runs = 2
    /\ pc = "idle"
    /\ CatalogName("demo") \in remote

\* Position of a teardown call in the dependency order.
DestroyRank(o) ==
    CASE o = "lakeview.trash" -> 1
      [] o = "workspace.delete" -> 2
      [] o = "sql/destroy/remove_column_masks.sql" -> 3
      [] o = "sql/destroy/drop_functions.sql" -> 4
      [] o = "sql/destroy/drop_table.sql" -> 5
      [] o = "catalogs.delete" -> 6
      [] o = "connections.delete" -> 7
      [] o = "secrets.delete_scope" -> 8
      [] OTHER -> 0

\* C17: a destroy run attempts its steps in the order dashboard, notebook,
\* column masks, functions, sample table, catalog, connection, secret scope,
\* and the delete calls it issues follow that order: masks and functions
\* before the table, the table before the catalog, the catalog before the
\* connection, the connection before the secret scope.
C17_TeardownOrder ==
    /\ dsteps = [i \in 1..Len(dsteps) |-> i]
    /\ Len(dsteps) <= 8
    /\ csteps = <<>> =>
           \A i \in 1..Len(ops) : \A j \in 1..Len(ops) :
               i < j => (0 < DestroyRank(ops[i]) /\ DestroyRank(ops[i]) < DestroyRank(ops[j]))

C17_Witness ==
    /\ cmd = "destroy"
    /\ pc = "d_done"
    /\ dsteps = AllDestroySteps
    /\ ops = <<"lakeview.trash", "workspace.delete", "sql/destroy/remove_column_masks.sql",
               "sql/destroy/drop_functions.sql", "sql/destroy/drop_table.sql",
               "catalogs.delete", "connections.delete", "secrets.delete_scope">>

\* The success entry a catalog-guarded step records when it is skipped.
SkipEntry(k) ==
    CASE k = 3 -> "Column masks (catalog didn't exist)"
      [] k = 4 -> "Functions (catalog didn't exist)"
      [] OTHER -> "Sample table (catalog didn't exist)"

\* C18: when <prefix>_catalog does not exist, destroy steps 3, 4 and 5 execute
\* no SQL and append nothing to failed_deletions; each appends its "catalog
\* didn't exist" entry to successful_deletions (unless the existence probe
\* itself raised, which ends the run in the except clause).
C18_NoCatalogSkipsAsSuccess ==
    [][\A k \in 3..5 :
          (pc = "d" \o ToString(k) /\ pc' # pc /\ CatalogName(prefix) \notin remote)
              => /\ ops' = ops
                 /\ remote' = remote
                 /\ failed_deletions' = failed_deletions
                 /\ k \notin dreported'
                 /\ \/ dcaught' /\ faults' > faults
                    \/ successful_deletions' = Append(successful_deletions, SkipEntry(k))]_vars

C18_Witness ==
    /\ pc = "d6"
    /\ dsteps = <<1, 2, 3, 4, 5>>
    /\ CatalogName(prefix) \notin remote
    /\ Len(successful_deletions) = 5
    /\ successful_deletions[3] = SkipEntry(3)
    /\ successful_deletions[4] = SkipEntry(4)
    /\ successful_deletions[5] = SkipEntry(5)
    /\ failed_deletions = <<>>
    /\ ops = <<>>

\* The statements of VerifyCommand.execute, none of which changes the platform.
ReadStatements == {"DESCRIBE TABLE", "SELECT COUNT", "SELECT", "DESCRIBE FUNCTION"}

C20_NoRaceAcrossIdentifiers ==
    [][(/\ cmd = "create"
        /\ pc = "c9"
        /\ pc' = "c_done"
        /\ runs = 1
        /\ faults' = 0)
           => /\ cresult' = "true"
              /\ OwnResources(prefix) \subseteq remote'
              /\ dash'[prefix] = 1]_vars

\* C21 (as claimed): a create primitive called for a resource that exists
\* (and whose pre-check, if it has one, answers) returns true and issues no
\* mutating call; called for one that does not exist it issues its create
\* call and returns true if that succeeds, false on a DatabricksError.
C21_CreateNoOpWhenExists ==
    (last.op # "none" /\ last.kind = "create" /\ last.probe \in {"ok", "none"}) =>
        IF last.existed
        THEN last.ret = "true" /\ last.calls = <<>>
        ELSE /\ last.calls # <<>>
             /\ last.out = "ok" => last.ret = "true"
             /\ last.out = "dberr" => last.ret = "false"

\* The drop primitives that start with an existence pre-check.
PreCheckedDrops == {"drop_catalog", "drop_connection", "delete_secret_scope", "delete_notebook"}

\* C22 (as claimed): a drop primitive called for a resource that does not
\* exist (and whose pre-check, if it has one, answers) returns true and issues
\* no delete call; called for one that exists it issues its delete call and
\* returns true if that succeeds, false on a DatabricksError.
C22_DropNoOpWhenMissing ==
    (last.op # "none" /\ last.kind = "drop" /\ last.probe \in {"ok", "none"}) =>
        IF ~last.existed
        THEN last.ret = "true" /\ last.calls = <<>>
        ELSE /\ last.calls # <<>>
             /\ last.out \in {"ok", "stale"} => last.ret = "true"
             /\ last.out \in {"dberr", "notfound"} => last.ret = "false"

\* C22 (amended): drop_catalog, drop_connection, delete_secret_scope and
\* delete_notebook, when their pre-check answers, return true without a delete
\* call for a resource that does not exist, and otherwise issue the delete and
\* return true on success, false on a DatabricksError; when the pre-check
\* itself fails they issue no delete call.  delete_dashboard has no pre-check:
\* it always issues lakeview.trash, and returns true when the call succeeds or
\* the platform answers "not found", false on any other DatabricksError.
C22_DropNoOpWhenMissingExceptDashboard ==
    /\ (last.op \in PreCheckedDrops /\ last.probe = "ok") =>
           IF ~last.existed
           THEN last.ret = "true" /\ last.calls = <<>>
           ELSE /\ Len(last.calls) = 1
                /\ last.out \in {"ok", "stale"} => last.ret = "true"
                /\ last.out = "dberr" => last.ret = "false"
    /\ (last.op \in PreCheckedDrops /\ last.probe # "ok") => last.calls = <<>>
    /\ last.op = "delete_dashboard" =>
           /\ last.calls = <<"lakeview.trash">>
           /\ last.out \in {"ok", "stale", "notfound"} => last.ret = "true"
           /\ last.out = "dberr" => last.ret = "false"
           /\ ~last.existed => last.out \notin {"ok", "stale"}

C22_Witness ==
    /\ last.op = "delete_dashboard"
    /\ ~last.existed
    /\ last.out = "notfound"
    /\ last.ret = "true"
    /\ last.calls = <<"lakeview.trash">>
    /\ CatalogName(MainPrefix) \in remote

\* The answer of an existence test as its caller sees it.
ExistenceAnswer(r) ==
    CASE r \in {"true", "id"} -> "true"
      [] r \in {"false", "none"} -> "false"
      [] OTHER -> "raise"

\* C23 (as claimed): in every platform state the primitives leave behind and
\* for every way the probing call can end, each existence test the pipelines use answers what the
\* shared guard check_resource_exists answers: the scope test of
\* delete_secret_scope, secret_scope_exists, notebook_exists and the dashboard
\* lookup; so the pre-delete test and the post-delete test of a resource agree.
C23_OneExistenceGuard ==
    \A out \in ProbeOut :
        last.op # "none" =>
            /\ ExistenceAnswer(ScopeListed(remote, out))
                   = ExistenceAnswer(CheckResourceExists(ScopeName \in remote, out))
            /\ ExistenceAnswer(ScopeListed(remote, out)) = secret_scope_exists(remote, out)
            /\ notebook_exists(remote, MainPrefix, out)
                   = ExistenceAnswer(CheckResourceExists(NotebookPath(MainPrefix) \in remote, out))
            /\ ExistenceAnswer(find_dashboard_by_name(dash, MainPrefix, out))
                   = ExistenceAnswer(CheckResourceExists(dash[MainPrefix] > 0, out))
            /\ (NotebookPath(MainPrefix) \in remote <=> ScopeName \in remote) =>
                   notebook_exists(remote, MainPrefix, out)
                       = ExistenceAnswer(ScopeListed(remote, out))

\* A SQL file has been run, statement by statement.
SqlFileRan == last.op # "none" /\ last.kind = "sql" /\ last.fileret # "none"

InDocumentOrder(executed) == \A j \in 1..Len(executed) : executed[j] = j

\* C24 (as stated): execute_sql_file executes the statements of the file in
\* document order, stops at the first statement that fails, executing none
\* of the statements after it, reports that statement's index, and returns
\* true only if every statement succeeded.
C24_SqlFileStopsAtFirstFailure ==
    SqlFileRan =>
        /\ InDocumentOrder(last.executed)
        /\ (last.firstbad = 0) => (Len(last.executed) = last.n /\ last.fileret = "true")
        /\ (last.firstbad > 0) =>
               /\ Len(last.executed) = last.firstbad
               /\ last.fileret = "false"
               /\ last.failed_at = last.firstbad

\* C24 (amended): as stated, except that the index is reported only for a
\* statement that execute_statement answers with None (a state other than
\* SUCCEEDED, or a DatabricksError); when the statement raises another error,
\* execute_sql_file still stops there and returns false, but its message
\* names the error and the file, not the statement.
C24_SqlFileStopsAtFirstFailureIndexUnlessRaised ==
    SqlFileRan =>
        /\ InDocumentOrder(last.executed)
        /\ (last.firstbad = 0) => (Len(last.executed) = last.n /\ last.fileret = "true")
        /\ (last.firstbad > 0) =>
               /\ Len(last.executed) = last.firstbad
               /\ last.fileret = "false"
               /\ last.error => last.failed_at = 0
               /\ ~last.error => last.failed_at = last.firstbad

C24_Witness ==
    /\ SqlFileRan
    /\ last.n = 3
    /\ last.firstbad = 2
    /\ last.executed = <<1, 2>>
    /\ last.failed_at = 2
    /\ last.fileret = "false"

\* C27: a polling timeout is a failure of the step.  A statement still
\* PENDING or RUNNING when wait_for_completion returns false makes
\* execute_statement return None, the SQL file return false and the step
\* that runs the file record a failure; execute_statement returns a response
\* only when the last state it saw is SUCCEEDED.
C27_PollingTimeoutFailsStep ==
    /\ \A s \in StatementInputs :
           /\ execute_statement(s).timedout => execute_statement(s).ret = "none"
           /\ execute_statement(s).ret = "response" => execute_statement(s).state = "SUCCEEDED"
    /\ (SqlFileRan /\ last.timedout) =>
           /\ last.fileret = "false"
           /\ last.op = "execute_sql_file" => last.ret = "false"
           /\ last.op = "destroy_step" => last.fail # <<>>

\* The mutating call of the last operation went through execute_with_retry
\* with its attempts spelled out.
Retried == last.op # "none" /\ last.kind # "sql" /\ Len(last.att) = MaxAttempts

\* C28: execute_with_retry invokes the wrapped operation once; after a
\* transient failure it retries, up to a bounded number of attempts; a
\* non-transient failure propagates at once, without another attempt; once
\* the attempts are used up the failure surfaces to the calling step, which
\* reports failure.
C28_RetryThenStepReportsFailure ==
    Retried =>
        /\ last.tries >= 1
        /\ last.tries <= MaxAttempts
        /\ \A i \in 1..(last.tries - 1) : last.att[i] = "transient"
        /\ last.att[last.tries] = "transient" =>
               (last.tries = MaxAttempts /\ last.out = "dberr")
        /\ last.att[last.tries] # "transient" => last.out = last.att[last.tries]
        /\ last.out \in {"dberr", "exc"} =>
               IF last.kind = "step"
               THEN last.fail # <<>> \/ last.ret = "raise"
               ELSE last.ret \in {"false", "raise"}

MaxPolls == max_wait_seconds \div PollSeconds

\* The running command has returned its result.
Returned ==
    \/ pc = "c_done" /\ cresult \in {"true", "false"}
    \/ pc = "d_done" /\ cmd = "destroy" /\ dresult \in {"true", "false"}

\* C25: the tokenization job step returns true if and only if a poll of the
\* submitted run showed TERMINATED with result SUCCESS before the timeout
\* budget was used up; every other terminal state, a timeout and a failed
\* submit give false.
C25_JobTrueIffSuccessObserved ==
    (7 \in Range(csteps)) =>
        /\ tokenization_success <=> (observed = "TERMINATED/SUCCESS")
        /\ tokenization_success => (polls >= 1 /\ wait_time < max_wait_seconds)
        /\ observed \in FailedStates => ~tokenization_success
        /\ (polls = 0 \/ ~MonitorLoop(wait_time)) => ~tokenization_success

C25_Witness ==
    /\ pc = "c8"
    /\ tokenization_success
    /\ observed = "TERMINATED/SUCCESS"
    /\ polls = 2

\* C26: every polling loop is bounded and ends with a definite result: the
\* job monitor makes at most timeout_minutes*60/30 status calls and returns
\* false when none of them showed a terminal state, and every create and
\* destroy run returns true or false.
C26_PollingBoundedRunsTerminate ==
    /\ [](polls <= MaxPolls)
    /\ []((7 \in Range(csteps) /\ MonitorResult(observed) = "continue") =>
              ~tokenization_success)
    /\ (pc # "idle") ~> Returned

C26_Witness ==
    /\ pc = "c8"
    /\ polls = MaxPolls
    /\ observed = "RUNNING"
    /\ wait_time = max_wait_seconds
    /\ ~tokenization_success

\* Identifier q's integration is fully provisioned.
Provisioned(q) == PrefixDerived(q) \subseteq remote /\ dash[q] > 0

\* C29: destroy step 8 deletes the shared secret scope skyflow-secrets only
\* if no other catalog is using it: after a destroy run for one identifier
\* while another identifier's integration is still provisioned, the secret
\* scope still exists.
C29_SharedScopeKeptWhileInUse ==
    (pc = "d_done" /\ cmd = "destroy" /\ dsummary) =>
        \A q \in Prefixes \ {prefix} : Provisioned(q) => ScopeName \in remote

\* C30: a destroy run for one identifier never deletes or modifies a resource
\* whose name is derived from another identifier (catalog, schema, sample
\* table, functions, column masks, notebook, dashboard).
C30_DestroyLeavesOtherIdentifiers ==
    [][(cmd = "destroy" /\ prefix \in Prefixes) =>
           \A q \in Prefixes \ {prefix} :
               /\ PrefixDerived(q) \cap remote' = PrefixDerived(q) \cap remote
               /\ dash'[q] = dash[q]]_vars

C30_Witness ==
    /\ pc = "d_done"
    /\ cmd = "destroy"
    /\ prefix = MainPrefix
    /\ dresult = "true"
    /\ PrefixDerived(MainPrefix) \cap remote = {}
    /\ dash[MainPrefix] = 0
    /\ Provisioned(OtherPrefix)

\* The entry a validated step appends to successful_deletions for its resource.
DeletedEntry(k, p) ==
    CASE k = 1 -> "Dashboard: " \o DashboardName(p)
      [] k = 6 -> "Catalog: " \o CatalogName(p)
      [] k = 7 -> "Connection: " \o ConnName
      [] OTHER -> "Secret scope: " \o ScopeName

ValidatedSteps == {1, 6, 7, 8}

\* C31: in every destroy run, each "<resource> (still exists)" entry of
\* failed_deletions comes with a successful_deletions entry for the same
\* resource: a resource whose delete succeeded but which the post-delete
\* probe still finds is in both lists.
C31_StillExistsInBothLists ==
    \A k \in ValidatedSteps :
        /\ StillEntry(k, prefix) \in Range(failed_deletions) =>
               DeletedEntry(k, prefix) \in Range(successful_deletions)
        /\ k \in dstill =>
               /\ StillEntry(k, prefix) \in Range(failed_deletions)
               /\ DeletedEntry(k, prefix) \in Range(successful_deletions)

C31_Witness ==
    /\ pc = "d_done"
    /\ dsummary
    /\ 8 \in dstill
    /\ "Secret scope: skyflow-secrets (still exists)" \in Range(failed_deletions)
    /\ "Secret scope: skyflow-secrets" \in Range(successful_deletions)

CreateCalls ==
    {"catalogs.create", "schemas.create", "connections.create", "secrets.create_scope",
     "secrets.put_secret", "workspace.upload", "jobs.submit", "lakeview.create",
     "sql/setup/create_uc_connections.sql", "sql/setup/setup_uc_connections_api.sql",
     "sql/setup/create_sample_table.sql", "sql/setup/apply_column_masks.sql"}

\* The create run has ended at its validation: configuration or files.
CreateRefused == cmd = "create" /\ pc = "c_done" /\ csteps = <<>>

\* The resource that validated destroy step k deletes is there.
Present(k, p) ==
    CASE k = 1 -> dash[p] > 0
      [] k = 6 -> CatalogName(p) \in remote
      [] k = 7 -> ConnName \in remote
      [] OTHER -> ScopeName \in remote

\* C33 (as stated): when template files are missing or the environment
\* validation fails, the create run returns false without issuing a create
\* operation, after its pre-create destroy run has executed: the resources
\* of the identifier and the shared connection and secret scope that existed
\* before have been deleted and nothing is re-created.
C33_RefusedCreateHasDeleted ==
    CreateRefused =>
        /\ cresult = "false"
        /\ Range(ops) \cap CreateCalls = {}
        /\ preclean \in {"true", "false"}
        /\ Clean(remote, dash, prefix)

\* C33 (amended): the create run returns false without issuing a create
\* operation, after its pre-create destroy run has returned, and nothing is
\* re-created; when the refusal is the only failure there has been, that
\* destroy run went through its eight steps, returned true and left none of
\* the identifier's resources, nor the shared connection and secret scope.
\* What the destroy run failed to delete, or never reached because its own
\* validation failed as well, is still there.
C33_RefusedCreateKeepsDestroyEffects ==
    CreateRefused =>
        /\ cresult = "false"
        /\ Range(ops) \cap CreateCalls = {}
        /\ preclean \in {"true", "false"}
        /\ preclean = dresult
        /\ faults = 1 =>
               /\ preclean = "true"
               /\ dsteps = AllDestroySteps
               /\ Clean(remote, dash, prefix)

C33_Witness ==
    /\ CreateRefused
    /\ ~ccaught
    /\ faults = 1
    /\ preclean = "true"
    /\ "catalogs.delete" \in Range(ops)
    /\ "secrets.delete_scope" \in Range(ops)
    /\ Clean(remote, dash, prefix)

\* The delete operation each destroy step issues.
DeleteCall(k) ==
    CASE k = 1 -> "lakeview.trash"
      [] k = 2 -> "workspace.delete"
      [] k = 3 -> "sql/destroy/remove_column_masks.sql"
      [] k = 4 -> "sql/destroy/drop_functions.sql"
      [] k = 5 -> "sql/destroy/drop_table.sql"
      [] k = 6 -> "catalogs.delete"
      [] k = 7 -> "connections.delete"
      [] k = 8 -> "secrets.delete_scope"

DestroyAborted == pc = "d_done" /\ dcaught

\* C34: a destroy run whose environment validation failed, or one of whose
\* steps raised an error the step does not catch, returns false, has issued no
\* delete operation of any later step, and has produced no summary.
C34_AbortedDestroyStopsWithoutSummary ==
    DestroyAborted =>
        /\ dresult = "false"
        /\ ~dsummary
        /\ dsteps = [i \in 1..Len(dsteps) |-> i]
        /\ \A k \in 1..8 : k > Len(dsteps) => DeleteCall(k) \notin Range(ops)

C34_Witness ==
    /\ DestroyAborted
    /\ cmd = "destroy"
    /\ Len(dsteps) \in 1..7
    /\ successful_deletions # <<>>
    /\ \E k \in {6, 7, 8} : k > Len(dsteps) /\ Present(k, prefix)

C34_WitnessValidation ==
    /\ DestroyAborted
    /\ cmd = "destroy"
    /\ dsteps = <<>>
    /\ ops = <<>>
    /\ \A k \in {6, 7, 8} : Present(k, prefix)

\* C35 (as claimed): whatever dashboard setups and destroy steps have run for
\* an identifier, at most one dashboard carries its display name.
C35_AtMostOneDashboard ==
    \A p \in DOMAIN dash : dash[p] <= 1

\* The monitor has returned and its last status call raised an error.
MonitorEndedOnError == 7 \in Range(csteps) /\ observed = "error"

\* C36: an error raised by the monitor's status call does not fail the job
\* step: the poll costs one 30-second interval and the loop goes on, so a
\* monitor whose last status call failed has returned false only with the
\* whole timeout budget used up.
C36_PollErrorOnlyCostsAnInterval ==
    /\ [](MonitorEndedOnError =>
              /\ ~tokenization_success
              /\ 7 \in cfailed
              /\ wait_time >= max_wait_seconds
              /\ polls = MaxPolls)
    /\ [][(pc = "c7_poll" /\ polls' = polls + 1 /\ observed' = "error") =>
              /\ pc' = "c7_poll"
              /\ wait_time' = wait_time + PollSeconds
              /\ csteps' = csteps
              /\ cfailed' = cfailed]_vars

\* Every status call of the run failed and the step returned false at the
\* timeout.
C36_Witness ==
    /\ MonitorEndedOnError
    /\ polls = MaxPolls
    /\ faults = MaxPolls
    /\ wait_time = max_wait_seconds
    /\ 7 \in cfailed
    /\ ~tokenization_success

\* The create phase of recreate is past its nested destroy run.
RecreateInCreate ==
    cmd = "recreate" /\ pc \in {"c0", "c1", "c2", "c3", "c4", "c5", "c6", "c7", "c8", "c9", "c_done"}

RECURSIVE Flatten(_)
Flatten(qs) == IF qs = <<>> THEN <<>> ELSE Head(qs) \o Flatten(Tail(qs))

AllTrue(parts) == \A i \in 1..Len(parts) : parts[i] = "true"

\* C38: create step 1 returns true if and only if create_catalog and
\* create_schema both returned true, and create_schema is called, with its
\* own pre-check and create call, also when create_catalog has returned
\* false; only an error create_catalog lets through ends the step before the
\* schema.
C38_CatalogAndSchemaNoShortCircuit ==
    last.op = "_setup_unity_catalog" =>
        /\ last.ret = "true" <=> (Len(last.parts) = 2 /\ AllTrue(last.parts))
        /\ last.parts[1] = "false" =>
               /\ Len(last.parts) = 2
               /\ last.calls = Flatten(last.partcalls)
               /\ last.ret = IF last.parts[2] = "raise" THEN "raise" ELSE "false"
        /\ last.parts[1] = "raise" => (last.ret = "raise" /\ last.calls = last.partcalls[1])

\* create_catalog failed on its pre-check although the catalog exists, and
\* create_schema went on to create the schema.
C38_Witness ==
    /\ last.op = "_setup_unity_catalog"
    /\ last.parts = <<"false", "true">>
    /\ last.calls = <<"schemas.create">>
    /\ last.ret = "false"
    /\ SchemaName(MainPrefix) \in remote

CountOf(q, x) == Cardinality({i \in 1..Len(q) : q[i] = x})

\* C39: create step 2 returns false without writing a secret when the secret
\* scope could not be created; otherwise it writes all four secrets, also
\* after a write that returned false, and returns true if and only if every
\* write returned true; only an error put_secret lets through ends the loop.
C39_SecretsAllWrittenUnlessNoScope ==
    last.op = "setup_skyflow_secrets" =>
        /\ last.parts[1] = "false" =>
               /\ last.ret = "false"
               /\ CountOf(last.calls, "secrets.put_secret") = 0
        /\ (last.parts[1] = "true" /\ "raise" \notin Range(last.parts)) =>
               /\ Len(last.parts) = 5
               /\ CountOf(last.calls, "secrets.put_secret") = 4
               /\ last.ret = IF AllTrue(last.parts) THEN "true" ELSE "false"
        /\ "raise" \in Range(last.parts) =>
               /\ last.ret = "raise"
               /\ last.calls = Flatten(last.partcalls)

\* The first write failed and the other three were made and succeeded.
C39_Witness ==
    /\ last.op = "setup_skyflow_secrets"
    /\ last.parts = <<"true", "false", "true", "true", "true">>
    /\ last.ret = "false"
    /\ CountOf(last.calls, "secrets.put_secret") = 4
    /\ SecretName(SecretOrder[1]) \notin remote
    /\ \A i \in 2..4 : SecretName(SecretOrder[i]) \in remote

\* C40: create step 3 executes the detokenization-function file only after
\* every statement of the connection file succeeded, returns true if and only
\* if execute_sql_file returned true for both files, and after a connection
\* statement that failed issues neither a later connection statement nor any
\* statement of the function file.
C40_FunctionsOnlyAfterConnections ==
    last.op = "_setup_connections" =>
        /\ (\E i \in 1..Len(last.calls) : last.calls[i] = FunctionsFile) =>
               (last.parts[1] = "true" /\ last.firstbad = 0)
        /\ last.ret = "true" <=> AllTrue(last.parts)
        /\ last.calls[1] = ConnectionsFile
        /\ last.firstbad # 0 =>
               /\ last.ret = "false"
               /\ \A i \in 1..Len(last.statements) :
                      /\ last.statements[i][1] = 1
                      /\ last.statements[i][2] <= last.firstbad

\* The second connection statement failed: nothing after it was issued.
C40_Witness ==
    /\ last.op = "_setup_connections"
    /\ last.firstbad = 2
    /\ last.statements = <<<<1, 1>>, <<1, 2>>>>
    /\ last.calls = <<ConnectionsFile>>
    /\ last.ret = "false"
    /\ FunctionName(MainPrefix) \notin remote

====
